---- MODULE Spec2Model ----
(***************************************************************************)
(* Model of the resilience core of naver-scraper-api:                      *)
(*   - CircuitBreaker, withRetry, calculateBackoffDelay, shouldRetry       *)
(*     (scraper/retry.ts, found in src/unnamed/part_000 lines 122-276)     *)
(*   - batchFetchPagedCompositeCards' limiter (src/src/scraper/index.ts)   *)
(*     and the p-limit instance of src/src/server.ts                       *)
(*   - MetricsCollector (src/unnamed/part_004) and the sample recorder of  *)
(*     src/src/utils/metrics.ts                                            *)
(*   - fetchPagedCompositeCards (src/src/scraper/index.ts), which puts the *)
(*     breaker, withRetry and the metrics together, and the handlers of    *)
(*     src/src/server.ts that call it                                      *)
(*   - LoadTester (load-test.ts, found in src/unnamed/part_006)            *)
(* Each component has its own specification; the variables of the other    *)
(* components stay at their initial values under it.                       *)
(***************************************************************************)
EXTENDS Integers, Sequences, FiniteSets, TLC

VARIABLES
  \* ---- CircuitBreaker (part_000:157-225) and its callers
  cb,          \* [state, failures, successes, lastFailureTime]: the private fields
  threshold,   \* CircuitBreaker.threshold (constructor argument)
  now,         \* Date.now()
  running,     \* operations invoked by execute and not yet settled, by admission kind
  step,        \* what the last breaker step was (observation of the call's result)
  calls,       \* operations invoked through execute so far
  trips,       \* number of CLOSED -> OPEN transitions so far (observation)
  \* ---- withRetry (part_000:230-276), one call of it
  maxRetries,    \* options.maxRetries
  baseDelayMs,   \* options.baseDelayMs
  shouldRetryFn, \* whether options.shouldRetryFn is given
  attempt,       \* the loop variable
  retryPc,       \* "start", "running" (awaiting operation()), "sleeping", "returned", "thrown"
  invocations,   \* calls of operation() so far (observation)
  lastError,     \* let lastError
  thrown,        \* the error the call rejected with
  onRetryLog,    \* the calls of options.onRetry: <<error number, attempt>>
  delay,         \* const delay, in 1/Scale ms
  waitMs,        \* the duration sleep() gave to setTimeout, in 1/Scale ms
  sleepJitter,   \* the jitter argument of sleep(), in tenths
  sleeps,        \* calls of sleep() so far (observation)
  allRetryable,  \* every failure so far was a retryable one (observation)
  \* ---- batchFetchPagedCompositeCards (index.ts:499-534), one call of it
  concurrency,     \* options.concurrency
  activeRequests,  \* let activeRequests
  urlPc,           \* where processUrl(url, index) stands, per index
  results,         \* const results, per index
  \* ---- const limit = pLimit(...) of server.ts and the requests using it
  limitCapacity,   \* config.scraper.maxConcurrentRequests
  activeCount,     \* functions the limiter is running
  limitQueue,      \* requests waiting in the limiter, oldest first
  reqPc,           \* where each request handler stands
  \* ---- MetricsCollector (part_004), the instance "metrics"
  metrics,      \* private metrics: MetricsData; averageLatencyMs in 1/100 ms,
                \* lastResetAt as the number of the reset that set it
  latencies,    \* private latencies: number[]
  \* ---- utils/metrics.ts, the module-level state
  samples,      \* const samples, each [ok, ms]
  total,        \* let total
  success,      \* let success
  failure,      \* let failure
  recordedBefore,  \* records both modules took before the run followed here
  \* ---- fetchPagedCompositeCards (index.ts:150-404) and its callers in server.ts
  fetchers,          \* the logical requests under way, one record per concurrent caller
  fetchCalls,        \* calls of fetchPagedCompositeCards so far
  completedAttempts, \* invocations of scrapeFn settled since the last metrics reset (observation)
  resetFrom,         \* the breaker state the last POST /metrics/reset found (observation)
  reply,             \* what GET /health or GET /metrics sent, when it was the last step
  \* ---- LoadTester (part_006), one call of runTest
  targetRequests,    \* options.totalRequests
  testConcurrency,   \* options.concurrency
  requestCount,      \* let requestCount
  testActive,        \* let activeRequests of runTest
  testResults,       \* private results: TestResult[]
  summary            \* what generateSummary returned, once runTest has ended

breakerVars == <<cb, threshold, now, running, step, calls, trips>>

retryVars == <<maxRetries, baseDelayMs, shouldRetryFn, attempt, retryPc, invocations,
               lastError, thrown, onRetryLog, delay, waitMs, sleepJitter, sleeps,
               allRetryable>>

limiterVars == <<concurrency, activeRequests, urlPc, results,
                 limitCapacity, activeCount, limitQueue, reqPc>>

metricsVars == <<metrics, latencies, samples, total, success, failure, recordedBefore>>

fetchVars == <<fetchers, fetchCalls, completedAttempts, resetFrom, reply>>

loadVars == <<targetRequests, testConcurrency, requestCount, testActive, testResults, summary>>

vars == <<breakerVars, retryVars, limiterVars, metricsVars, fetchVars, loadVars>>

otherThanBreaker == <<retryVars, limiterVars, metricsVars, fetchVars, loadVars>>
otherThanRetry == <<breakerVars, limiterVars, metricsVars, fetchVars, loadVars>>
otherThanLimiter == <<breakerVars, retryVars, metricsVars, fetchVars, loadVars>>
otherThanMetrics == <<breakerVars, retryVars, limiterVars, fetchVars, loadVars>>

(***************************************************************************)
(* Bounds of the model                                                     *)
(***************************************************************************)
MaxCalls == 14      \* operations admitted by the breaker in one run
MaxInFlight == 3    \* operations simultaneously awaiting their outcome
MaxTicks == 2       \* clock advances in one run
MaxRetriesOption == 3  \* options.maxRetries ranges over 0..MaxRetriesOption
RandomSteps == 2    \* Math.random() ranges over k / RandomSteps, 0 <= k < RandomSteps
NumUrls == 3        \* length of the urls array given to batchFetchPagedCompositeCards
NumRequests == 3    \* HTTP requests handled through the server's limiter
MaxConcurrency == 2 \* limiter capacities range over 1..MaxConcurrency
MaxRecords == 5     \* records held by the two metrics modules together
MaxTripRecords == 1 \* recordCircuitBreakerTrip calls between two resets
MaxResets == 1      \* calls of MetricsCollector.reset
MaxFetches == 2     \* calls of fetchPagedCompositeCards in one run
MaxLoadRequests == 3  \* options.totalRequests of the load test ranges over 1..MaxLoadRequests

(***************************************************************************)
(* CircuitBreaker                                                          *)
(***************************************************************************)
Timeout == 60000          \* private timeout = 60000
MinimumSampleSize == 10   \* totalRequests >= 10 in onFailure

\* config.scraper.circuitBreakerThreshold: the two defaults of config.ts (50 and
\* 40), and 100 (CIRCUIT_BREAKER_THRESHOLD=100), which no error rate exceeds.
Thresholds == {40, 50, 100}

\* The clock advances by exactly the timeout or by one millisecond more, so
\* that both sides of "Date.now() - lastFailureTime > timeout" are met.
TickSteps == {Timeout, Timeout + 1}

\* The field initialisers of the class.
NewBreaker == [state |-> "CLOSED", failures |-> 0, successes |-> 0, lastFailureTime |-> 0]

\* The counters are numbers (IEEE-754 doubles): for totalRequests <= MaxSamples,
\* (failures / totalRequests) * 100 is the exact value whenever that is an
\* integer, except for these <<failures, totalRequests>>, where the double
\* is the next one above it (11 / 20 * 100 is 55.00000000000001).
MaxSamples == 40
RoundedAbove == { <<11, 20>>, <<7, 25>>, <<14, 25>>, <<22, 40>> }

\* errorRate > this.threshold, with errorRate = total > 0 ? (failures / total) * 100 : 0,
\* for an integer threshold: the exact comparison, and the quotients rounded
\* above a value equal to the threshold.
ErrorRateAbove(failures, successes, th) ==
  LET totalRequests == failures + successes
  IN  IF totalRequests > 0
        THEN \/ failures * 100 > th * totalRequests
             \/ /\ failures * 100 = th * totalRequests
                /\ <<failures, totalRequests>> \in RoundedAbove
        ELSE 0 > th

\* Mutation of onSuccess: the success of a HALF_OPEN probe is not counted.
onSuccess_ProbeNotCounted(b) ==
  IF b.state = "HALF_OPEN"
    THEN [b EXCEPT !.state = "CLOSED", !.failures = 0]
    ELSE [b EXCEPT !.successes = @ + 1]

\* private onSuccess()
onSuccess(b) ==
  LET counted == [b EXCEPT !.successes = @ + 1]
  IN  IF b.state = "HALF_OPEN"
        THEN [counted EXCEPT !.state = "CLOSED", !.failures = 0]
        ELSE counted

\* Mutation of onFailure: the sample floor written with >.
onFailure_ElevenSamples(b, t, th) ==
  LET counted == [b EXCEPT !.failures = @ + 1, !.lastFailureTime = t]
  IN  IF /\ ErrorRateAbove(counted.failures, counted.successes, th)
         /\ counted.failures + counted.successes > MinimumSampleSize
        THEN [counted EXCEPT !.state = "OPEN"]
        ELSE counted

\* private onFailure(), called at time t with threshold th
onFailure(b, t, th) ==
  LET counted == [b EXCEPT !.failures = @ + 1, !.lastFailureTime = t]
  IN  IF /\ ErrorRateAbove(counted.failures, counted.successes, th)
         /\ counted.failures + counted.successes >= MinimumSampleSize
        THEN [counted EXCEPT !.state = "OPEN"]
        ELSE counted

\* Mutation of executeRejects: the timeout test written with >=.
executeRejects_InclusiveTimeout(b, t) ==
  /\ b.state = "OPEN"
  /\ ~(t - b.lastFailureTime >= Timeout)

\* The gate at the head of execute(): whether the call is rejected with
\* 'Circuit breaker is OPEN - failing fast'.
executeRejects(b, t) ==
  /\ b.state = "OPEN"
  /\ ~(t - b.lastFailureTime > Timeout)

\* Mutation of executeGate: the state is left OPEN when the timeout has elapsed.
executeGate_StaysOpen(b, t) == b

\* The breaker after the gate of an admitted call: OPEN becomes HALF_OPEN when
\* the timeout has elapsed.
executeGate(b, t) ==
  IF b.state = "OPEN" /\ t - b.lastFailureTime > Timeout
    THEN [b EXCEPT !.state = "HALF_OPEN"]
    ELSE b

\* Mutation of reset: as in onSuccess, only the failures are cleared.
resetBreaker_KeepsSuccesses(b) ==
  [b EXCEPT !.failures = 0, !.state = "CLOSED", !.lastFailureTime = 0]

\* reset()
resetBreaker(b) ==
  [b EXCEPT !.failures = 0, !.successes = 0, !.state = "CLOSED", !.lastFailureTime = 0]

\* The integer nearest to num / den, halves upwards (num >= 0, den > 0):
\* Math.round, and toFixed on a scaled value.
RoundDiv(num, den) == (2 * num + den) \div (2 * den)

\* Mutation of getState: the accessor runs the gate of execute().
getState_RunsGate(b, t) ==
  LET gated == executeGate(b, t)
      totalRequests == b.failures + b.successes
      errorRate == IF totalRequests > 0
                     THEN RoundDiv(b.failures * 100 * 100, totalRequests) ELSE 0
  IN  [self |-> gated,
       result |-> [state |-> gated.state, failures |-> b.failures,
                   successes |-> b.successes, errorRate |-> errorRate]]

\* getState(), called at time t: the object after the call (self) and the
\* value returned, errorRate in 1/100 of a percent
\* (Number(errorRate.toFixed(2))).
getState(b, t) ==
  LET totalRequests == b.failures + b.successes
      errorRate == IF totalRequests > 0
                     THEN RoundDiv(b.failures * 100 * 100, totalRequests) ELSE 0
  IN  [self |-> b,
       result |-> [state |-> b.state, failures |-> b.failures,
                   successes |-> b.successes, errorRate |-> errorRate]]

InFlight == running.pass + running.probe

\* execute(operation) up to its first suspension: the gate, then either the
\* throw or the invocation of the operation (await operation()).
ExecuteRejected ==
  /\ executeRejects(cb, now)
  /\ step' = "rejected"
  /\ UNCHANGED <<cb, threshold, now, running, calls, trips>>
  /\ UNCHANGED otherThanBreaker

ExecuteInvoke ==
  /\ ~executeRejects(cb, now)
  /\ InFlight < MaxInFlight
  /\ calls < MaxCalls
  /\ calls' = calls + 1
  /\ cb' = executeGate(cb, now)
  /\ IF cb.state = "OPEN"
       THEN /\ running' = [running EXCEPT !.probe = @ + 1]
            /\ step' = "probe"
       ELSE /\ running' = [running EXCEPT !.pass = @ + 1]
            /\ step' = "invoked"
  /\ UNCHANGED <<threshold, now, trips>>
  /\ UNCHANGED otherThanBreaker

\* The continuation of execute() after the operation resolved: onSuccess().
OperationSucceeds ==
  \E k \in {"pass", "probe"} :
    /\ running[k] > 0
    /\ running' = [running EXCEPT ![k] = @ - 1]
    /\ cb' = onSuccess(cb)
    /\ step' = "success"
    /\ UNCHANGED <<threshold, now, calls, trips>>
    /\ UNCHANGED otherThanBreaker

\* The continuation of execute() after the operation threw: onFailure().
OperationFails ==
  \E k \in {"pass", "probe"} :
    /\ running[k] > 0
    /\ running' = [running EXCEPT ![k] = @ - 1]
    /\ cb' = onFailure(cb, now, threshold)
    /\ step' = "failure"
    /\ trips' = IF cb.state = "CLOSED" /\ cb'.state = "OPEN" THEN trips + 1 ELSE trips
    /\ UNCHANGED <<threshold, now, calls>>
    /\ UNCHANGED otherThanBreaker

\* resetCircuitBreaker() (index.ts), the operator action.
Reset ==
  /\ cb' = resetBreaker(cb)
  /\ step' = "reset"
  /\ UNCHANGED <<threshold, now, running, calls, trips>>
  /\ UNCHANGED otherThanBreaker

Tick ==
  \E d \in TickSteps :
    /\ now + d <= MaxTicks * (Timeout + 1)
    /\ now' = now + d
    /\ step' = "tick"
    /\ UNCHANGED <<cb, threshold, running, calls, trips>>
    /\ UNCHANGED otherThanBreaker

(***************************************************************************)
(* sleep, calculateBackoffDelay, shouldRetry, withRetry                    *)
(***************************************************************************)
BackoffCapMs == 30000      \* Math.min(..., 30000)
BackoffJitterTenths == 3   \* exponentialDelay * 0.3 * Math.random()
SleepJitterTenths == 2     \* sleep(ms, jitter = 0.2)
MinSleepMs == 100          \* Math.max(100, ...)

\* Durations are kept exactly, as integers in units of 1/Scale ms: a value
\* Math.random() = k / RandomSteps enters calculateBackoffDelay once and
\* sleep once, each with a one-decimal factor.
Scale == 100 * RandomSteps * RandomSteps

Randoms == 0 .. RandomSteps - 1

Min(a, b) == IF a < b THEN a ELSE b
Max(a, b) == IF a > b THEN a ELSE b

\* Mutation of calculateBackoffDelay: the cap of 30000 is missing.
calculateBackoffDelay_Uncapped(att, base, k) ==
  LET exponentialDelay == base * 2^att
  IN  exponentialDelay * (10 * RandomSteps + BackoffJitterTenths * k) * (10 * RandomSteps)

\* calculateBackoffDelay(attempt, baseDelayMs) with Math.random() = k / RandomSteps;
\* the result in 1/Scale ms:
\*   exponentialDelay + exponentialDelay * 0.3 * (k / RandomSteps)
calculateBackoffDelay(att, base, k) ==
  LET exponentialDelay == Min(base * 2^att, BackoffCapMs)
  IN  exponentialDelay * (10 * RandomSteps + BackoffJitterTenths * k) * (10 * RandomSteps)

\* Mutation of sleepFor: the floor of 100 ms is left out.
sleepFor_NoFloor(ms, tenths, k) ==
  LET twentieths == 20 * RandomSteps + 2 * tenths * k - tenths * RandomSteps
  IN  (ms * twentieths) \div (20 * RandomSteps)

\* The duration sleep(ms, jitter) waits, jitter = tenths / 10 and
\* Math.random() = k / RandomSteps; ms and the result in 1/Scale ms:
\*   Math.max(100, ms + ms * jitter * (k / RandomSteps - 0.5))
\* = Math.max(100, ms * (20 R + 2 * tenths * k - tenths * R) / (20 R)),  R = RandomSteps
sleepFor(ms, tenths, k) ==
  LET twentieths == 20 * RandomSteps + 2 * tenths * k - tenths * RandomSteps
  IN  Max(MinSleepMs * Scale, (ms * twentieths) \div (20 * RandomSteps))

\* sleep(ms): the default jitter 0.2
sleepDuration(ms, k) == sleepFor(ms, SleepJitterTenths, k)

retryableStatuses == {429, 500, 502, 503, 504, 520, 521, 522, 524}

\* Mutation of shouldRetry: the status is not looked at.
shouldRetry_AnyStatus(status, att, maxR) ==
  IF att >= maxR THEN FALSE ELSE TRUE

\* shouldRetry(status, attempt, maxRetries)
shouldRetry(status, att, maxR) ==
  IF att >= maxR THEN FALSE ELSE status \in retryableStatuses

\* An error thrown by the operation: its status property (0 when it has none),
\* what it stems from, the number of the invocation that threw it, and the
\* verdict options.shouldRetryFn gives for it when that option is present.
Statuses == {0, 404, 429, 503}

\* What a failure stems from: an HTTP response, whose status it carries, or,
\* with no status, the transport (timeout, connection reset) or a response
\* that could not be parsed.
FailureKinds(status) == IF status # 0 THEN {"http"} ELSE {"transport", "malformed"}

NoError == [status |-> 0, kind |-> "none", n |-> 0, custom |-> FALSE]

\* shouldRetryCustom in withRetry's catch block
shouldRetryCustom(err, att, maxR, hasFn) ==
  LET shouldRetryDefault == IF err.status # 0 THEN shouldRetry(err.status, att, maxR) ELSE TRUE
  IN  IF hasFn THEN err.custom ELSE shouldRetryDefault

\* The classification of a failure under the policy in force, as the
\* documentation of withRetry states it (observation only).
RetryableFailure(err, hasFn) ==
  IF hasFn THEN err.custom ELSE (err.status = 0 \/ err.status \in retryableStatuses)

BaseDelays == {1000, 3000, 20000}

\* Mutation of notifyRetry: the hook is given the number of the retry.
notifyRetry_OneBased(log, error, att) == Append(log, <<error.n, att + 1>>)

\* if (onRetry) onRetry(error, attempt): the calls of the hook so far, each
\* as the number of the invocation whose failure it was given and the index.
notifyRetry(log, error, att) == Append(log, <<error.n, att>>)

\* withRetry(operation, options) is called: the loop starts with attempt = 0
\* and invokes the operation.
RetryStart ==
  /\ retryPc = "start"
  /\ attempt' = 0
  /\ invocations' = invocations + 1
  /\ retryPc' = "running"
  /\ UNCHANGED <<maxRetries, baseDelayMs, shouldRetryFn, lastError, thrown, onRetryLog,
                 delay, waitMs, sleepJitter, sleeps, allRetryable>>
  /\ UNCHANGED otherThanRetry

\* return await operation(), the operation resolved
AttemptSucceeds ==
  /\ retryPc = "running"
  /\ retryPc' = "returned"
  /\ UNCHANGED <<maxRetries, baseDelayMs, shouldRetryFn, attempt, invocations, lastError,
                 thrown, onRetryLog, delay, waitMs, sleepJitter, sleeps, allRetryable>>
  /\ UNCHANGED otherThanRetry

\* The operation threw: the catch block, up to the throw after the loop or
\* to the suspension in await sleep(delay).
AttemptFails ==
  \E st \in Statuses, verdict \in (IF shouldRetryFn THEN BOOLEAN ELSE {FALSE}),
     k1 \in Randoms, k2 \in Randoms :
   \E kind \in FailureKinds(st) :
    LET error == [status |-> st, kind |-> kind, n |-> invocations, custom |-> verdict]
        stop  == \/ attempt = maxRetries
                 \/ ~shouldRetryCustom(error, attempt, maxRetries, shouldRetryFn)
        d     == calculateBackoffDelay(attempt, baseDelayMs, k1)
    IN  /\ retryPc = "running"
        /\ lastError' = error
        /\ allRetryable' = (allRetryable /\ RetryableFailure(error, shouldRetryFn))
        /\ IF stop
             THEN /\ retryPc' = "thrown"
                  /\ thrown' = error
                  /\ UNCHANGED <<onRetryLog, delay, waitMs, sleepJitter, sleeps>>
             ELSE /\ delay' = d
                  /\ onRetryLog' = notifyRetry(onRetryLog, error, attempt)
                  /\ sleepJitter' = SleepJitterTenths
                  /\ waitMs' = sleepDuration(d, k2)
                  /\ sleeps' = sleeps + 1
                  /\ retryPc' = "sleeping"
                  /\ UNCHANGED thrown
        /\ UNCHANGED <<maxRetries, baseDelayMs, shouldRetryFn, attempt, invocations>>
        /\ UNCHANGED otherThanRetry

\* The timer of sleep() fired: attempt++, and the next iteration invokes the
\* operation.
SleepDone ==
  /\ retryPc = "sleeping"
  /\ attempt' = attempt + 1
  /\ attempt + 1 <= maxRetries
  /\ invocations' = invocations + 1
  /\ retryPc' = "running"
  /\ delay' = 0
  /\ waitMs' = 0
  /\ UNCHANGED <<maxRetries, baseDelayMs, shouldRetryFn, lastError, thrown, onRetryLog,
                 sleepJitter, sleeps, allRetryable>>
  /\ UNCHANGED otherThanRetry

\* The targets and jitter fractions sleep() is called with on its own: the
\* targets of its callers (2000, 2000 to 5000, 1000 to 3000), targets around
\* the floor, and jitters from none to 2.
SleepTargets == {0, 50, 100, 110, 130, 1000, 2000, 3000, 5000}
SleepJitters == {0, 2, 5, 10, 20}

\* sleep(ms, jitter) is called: the duration is computed and the timer set
SleepCall ==
  \E k \in Randoms :
    /\ retryPc = "start"
    /\ waitMs' = sleepFor(delay, sleepJitter, k)
    /\ sleeps' = sleeps + 1
    /\ retryPc' = "sleeping"
    /\ UNCHANGED <<maxRetries, baseDelayMs, shouldRetryFn, attempt, invocations, lastError,
                   thrown, onRetryLog, delay, sleepJitter, allRetryable>>
    /\ UNCHANGED otherThanRetry

\* the timer fired: the promise of sleep() resolves
SleepTimer ==
  /\ retryPc = "sleeping"
  /\ retryPc' = "slept"
  /\ UNCHANGED <<maxRetries, baseDelayMs, shouldRetryFn, attempt, invocations, lastError,
                 thrown, onRetryLog, delay, waitMs, sleepJitter, sleeps, allRetryable>>
  /\ UNCHANGED otherThanRetry

RetryAtRest ==
  /\ attempt = 0
  /\ retryPc = "start"
  /\ invocations = 0
  /\ lastError = NoError
  /\ thrown = NoError
  /\ onRetryLog = << >>
  /\ delay = 0
  /\ waitMs = 0
  /\ sleepJitter = SleepJitterTenths
  /\ sleeps = 0
  /\ allRetryable = TRUE

(***************************************************************************)
(* batchFetchPagedCompositeCards: the activeRequests limiter               *)
(***************************************************************************)
Urls == 1 .. NumUrls

\* urls.map calls processUrl for each index in turn, each running to its
\* first await; no timer fires before the map has ended.
MapEnded == \A u \in Urls : urlPc[u] # "new"

\* Mutation of acquireSlot: the loop test written with >.
acquireSlot_OffByOne(u) ==
  IF activeRequests > concurrency
    THEN /\ urlPc' = [urlPc EXCEPT ![u] = "waiting"]
         /\ UNCHANGED activeRequests
    ELSE /\ activeRequests' = activeRequests + 1
         /\ urlPc' = [urlPc EXCEPT ![u] = "delaying"]

\* while (activeRequests >= concurrency) await sleep(2000); activeRequests++;
\* from the loop test to the next suspension: either the sleep(2000) of the
\* loop body ("waiting") or, the slot taken, the sleep before the fetch
\* ("delaying").
acquireSlot(u) ==
  IF activeRequests >= concurrency
    THEN /\ urlPc' = [urlPc EXCEPT ![u] = "waiting"]
         /\ UNCHANGED activeRequests
    ELSE /\ activeRequests' = activeRequests + 1
         /\ urlPc' = [urlPc EXCEPT ![u] = "delaying"]

\* processUrl(url, index) is called by urls.map
ProcessUrlStart ==
  \E u \in Urls :
    /\ urlPc[u] = "new"
    /\ \A v \in Urls : v < u => urlPc[v] # "new"
    /\ acquireSlot(u)
    /\ UNCHANGED <<concurrency, results, limitCapacity, activeCount, limitQueue, reqPc>>
    /\ UNCHANGED otherThanLimiter

\* the sleep(2000) of the while loop ended: the loop test again
ProcessUrlWake ==
  \E u \in Urls :
    /\ MapEnded
    /\ urlPc[u] = "waiting"
    /\ acquireSlot(u)
    /\ UNCHANGED <<concurrency, results, limitCapacity, activeCount, limitQueue, reqPc>>
    /\ UNCHANGED otherThanLimiter

\* the sleep of 2-5 s ended: fetchPagedCompositeCards(url, scrapeOptions) is called
ProcessUrlFetch ==
  \E u \in Urls :
    /\ MapEnded
    /\ urlPc[u] = "delaying"
    /\ urlPc' = [urlPc EXCEPT ![u] = "fetching"]
    /\ UNCHANGED <<concurrency, activeRequests, results, limitCapacity, activeCount,
                   limitQueue, reqPc>>
    /\ UNCHANGED otherThanLimiter

\* Mutation of releaseSlot: the finally block does not give the slot back.
releaseSlot_Missing == UNCHANGED activeRequests

\* the finally block of processUrl
releaseSlot == activeRequests' = activeRequests - 1

\* Mutation of storeResult: the outcome is pushed behind the entries stored
\* so far.
storeResult_Pushed(res, u, outcome) ==
  LET free == {i \in DOMAIN res : res[i] = "empty"}
      next == CHOOSE i \in free : \A j \in free : i <= j
  IN  [res EXCEPT ![next] = outcome]

\* results[index] = result, and results[index] = error as Error
storeResult(res, u, outcome) == [res EXCEPT ![u] = outcome]

\* fetchPagedCompositeCards resolved: results[index] = result; finally
processUrlResolved(u) ==
  /\ urlPc[u] = "fetching"
  /\ results' = storeResult(results, u, "response")
  /\ releaseSlot
  /\ urlPc' = [urlPc EXCEPT ![u] = "done"]
  /\ UNCHANGED <<concurrency, limitCapacity, activeCount, limitQueue, reqPc>>
  /\ UNCHANGED otherThanLimiter

ProcessUrlResolved == \E u \in Urls : processUrlResolved(u)

\* fetchPagedCompositeCards rejected: catch, results[index] = error; finally
processUrlRejected(u) ==
  /\ urlPc[u] = "fetching"
  /\ results' = storeResult(results, u, "error")
  /\ releaseSlot
  /\ urlPc' = [urlPc EXCEPT ![u] = "done"]
  /\ UNCHANGED <<concurrency, limitCapacity, activeCount, limitQueue, reqPc>>
  /\ UNCHANGED otherThanLimiter

ProcessUrlRejected == \E u \in Urls : processUrlRejected(u)

(***************************************************************************)
(* The server's limiter: limit = pLimit(maxConcurrentRequests), shared by  *)
(* GET /naver and POST /naver/batch                                        *)
(***************************************************************************)
Requests == 1 .. NumRequests

\* limit(fn) of p-limit: fn starts at once when fewer than the capacity are
\* running, and waits in the queue otherwise.
limitEnter(r) ==
  IF activeCount < limitCapacity
    THEN /\ activeCount' = activeCount + 1
         /\ reqPc' = [reqPc EXCEPT ![r] = "fetching"]
         /\ UNCHANGED limitQueue
    ELSE /\ limitQueue' = Append(limitQueue, r)
         /\ reqPc' = [reqPc EXCEPT ![r] = "queued"]
         /\ UNCHANGED activeCount

\* p-limit when the function of request r has settled with outcome pc: the
\* slot is freed and the oldest waiting function, if any, is started.
limitNext(r, pc) ==
  IF limitQueue = << >>
    THEN /\ activeCount' = activeCount - 1
         /\ reqPc' = [reqPc EXCEPT ![r] = pc]
         /\ UNCHANGED limitQueue
    ELSE /\ activeCount' = (activeCount - 1) + 1
         /\ reqPc' = [reqPc EXCEPT ![r] = pc, ![Head(limitQueue)] = "fetching"]
         /\ limitQueue' = Tail(limitQueue)

\* GET /naver, or one url of POST /naver/batch:
\* limit(() => fetchPagedCompositeCards(url))
NaverRequest ==
  \E r \in Requests :
    /\ reqPc[r] = "new"
    /\ limitEnter(r)
    /\ UNCHANGED <<limitCapacity, concurrency, activeRequests, urlPc, results>>
    /\ UNCHANGED otherThanLimiter

\* fetchPagedCompositeCards resolved: the handler replies with the result
naverResolved(r) ==
  /\ reqPc[r] = "fetching"
  /\ limitNext(r, "replied")
  /\ UNCHANGED <<limitCapacity, concurrency, activeRequests, urlPc, results>>
  /\ UNCHANGED otherThanLimiter

NaverResolved == \E r \in Requests : naverResolved(r)

\* fetchPagedCompositeCards rejected: the handler's catch block replies with
\* an error status
naverRejected(r) ==
  /\ reqPc[r] = "fetching"
  /\ limitNext(r, "failed")
  /\ UNCHANGED <<limitCapacity, concurrency, activeRequests, urlPc, results>>
  /\ UNCHANGED otherThanLimiter

NaverRejected == \E r \in Requests : naverRejected(r)

LimiterAtRest ==
  /\ activeRequests = 0
  /\ urlPc = [u \in Urls |-> "new"]
  /\ results = [u \in Urls |-> "empty"]
  /\ activeCount = 0
  /\ limitQueue = << >>
  /\ reqPc = [r \in Requests |-> "new"]

\* No batch and no request is under way.
NoLimiterUse ==
  /\ concurrency = 1
  /\ limitCapacity = 1
  /\ LimiterAtRest

(***************************************************************************)
(* MetricsCollector                                                        *)
(***************************************************************************)
MAX_LATENCY_SAMPLES == 1000

\* The latencies and status codes the callers record: a latency at the 6 s
\* budget and one beyond it; no status code (0), and the two codes scrapeFn
\* can pass on (it sets error.status only for the statuses it has no fixed
\* message for).
Latencies == {6000, 7000}
FailureStatuses == {0, 400, 500}

\* arr.reduce((a, b) => a + b, 0), summed by halves so that a full buffer
\* is summed in few nested steps
RECURSIVE SumSeq(_)
SumSeq(q) ==
  IF Len(q) = 0 THEN 0
  ELSE IF Len(q) = 1 THEN q[1]
  ELSE LET half == Len(q) \div 2
       IN  SumSeq(SubSeq(q, 1, half)) + SumSeq(SubSeq(q, half + 1, Len(q)))

\* [...arr].sort((a, b) => a - b): the values of arr in ascending order, the
\* k-th being the value with fewer than k values below it and at least k
\* values not above it
Sorted(q) ==
  [k \in 1 .. Len(q) |->
     CHOOSE v \in {q[i] : i \in 1 .. Len(q)} :
       /\ Cardinality({i \in 1 .. Len(q) : q[i] < v}) < k
       /\ k <= Cardinality({i \in 1 .. Len(q) : q[i] <= v})]

NewMetrics(resetNo) ==
  [totalRequests |-> 0, successfulRequests |-> 0, failedRequests |-> 0,
   averageLatencyMs |-> 0, p95LatencyMs |-> 0,
   errorsByStatus |-> [st \in FailureStatuses \ {0} |-> 0],
   circuitBreakerTrips |-> 0, lastResetAt |-> resetNo]

\* private updateLatencyMetrics(), on the buffer lat
updateLatencyMetrics(m, lat) ==
  IF Len(lat) = 0 THEN m
  ELSE LET sorted == Sorted(lat)
           length == Len(lat)   \* sorted.length, the copy having the buffer's length
           p95Index == (length * 95) \div 100
       IN  [m EXCEPT !.averageLatencyMs = RoundDiv(SumSeq(lat) * 100, Len(lat)),
                     !.p95LatencyMs = IF p95Index < length THEN sorted[p95Index + 1] ELSE 0]

\* Mutation of pushLatency: the newest sample is dropped from a full buffer.
pushLatency_DropsNewest(lat, latencyMs) ==
  LET pushed == Append(lat, latencyMs)
  IN  IF Len(pushed) > MAX_LATENCY_SAMPLES THEN lat ELSE pushed

\* private recordLatency(latencyMs): the buffer after the push and the shift
pushLatency(lat, latencyMs) ==
  LET pushed == Append(lat, latencyMs)
  IN  IF Len(pushed) > MAX_LATENCY_SAMPLES THEN Tail(pushed) ELSE pushed

\* Mutation of recordSuccess: totalRequests is not incremented.
recordSuccess_TotalNotCounted(m, lat, latencyMs) ==
  updateLatencyMetrics([m EXCEPT !.successfulRequests = @ + 1],
                       pushLatency(lat, latencyMs))

\* recordSuccess(latencyMs)
recordSuccess(m, lat, latencyMs) ==
  updateLatencyMetrics([m EXCEPT !.totalRequests = @ + 1, !.successfulRequests = @ + 1],
                       pushLatency(lat, latencyMs))

\* Mutation of recordFailure: totalRequests is not incremented.
recordFailure_TotalNotCounted(m, lat, latencyMs, statusCode) ==
  LET counted == updateLatencyMetrics(
                   [m EXCEPT !.failedRequests = @ + 1],
                   pushLatency(lat, latencyMs))
  IN  IF statusCode # 0
        THEN [counted EXCEPT !.errorsByStatus[statusCode] = @ + 1]
        ELSE counted

\* recordFailure(latencyMs, statusCode); statusCode 0 stands for none
recordFailure(m, lat, latencyMs, statusCode) ==
  LET counted == updateLatencyMetrics(
                   [m EXCEPT !.totalRequests = @ + 1, !.failedRequests = @ + 1],
                   pushLatency(lat, latencyMs))
  IN  IF statusCode # 0
        THEN [counted EXCEPT !.errorsByStatus[statusCode] = @ + 1]
        ELSE counted

\* recordCircuitBreakerTrip()
recordCircuitBreakerTrip(m) == [m EXCEPT !.circuitBreakerTrips = @ + 1]

\* getMetrics(): { ...this.metrics }, a copy of the record
getMetrics(m) == m

\* getSuccessRate(), in 1/100 of a percent:
\* Number(((successfulRequests / totalRequests) * 100).toFixed(2))
getSuccessRate(m) ==
  IF m.totalRequests = 0 THEN 100 * 100
  ELSE RoundDiv(m.successfulRequests * 100 * 100, m.totalRequests)

\* Mutation of checkSLA: the latency budget tested with <.
checkSLA_StrictLatency(m) ==
  [avgLatencyOk |-> m.averageLatencyMs < 6000 * 100,
   errorRateOk |-> getSuccessRate(m) >= 95 * 100]

\* checkSLA(), without the summary string
checkSLA(m) ==
  [avgLatencyOk |-> m.averageLatencyMs <= 6000 * 100,
   errorRateOk |-> getSuccessRate(m) >= 95 * 100]

RecordSuccess ==
  \E latencyMs \in Latencies :
    /\ metrics.totalRequests + total < recordedBefore + MaxRecords
    /\ metrics' = recordSuccess(metrics, latencies, latencyMs)
    /\ latencies' = pushLatency(latencies, latencyMs)
    /\ UNCHANGED <<samples, total, success, failure, recordedBefore>>
    /\ UNCHANGED otherThanMetrics

RecordFailure ==
  \E latencyMs \in Latencies, statusCode \in FailureStatuses :
    /\ metrics.totalRequests + total < recordedBefore + MaxRecords
    /\ metrics' = recordFailure(metrics, latencies, latencyMs, statusCode)
    /\ latencies' = pushLatency(latencies, latencyMs)
    /\ UNCHANGED <<samples, total, success, failure, recordedBefore>>
    /\ UNCHANGED otherThanMetrics

RecordCircuitBreakerTrip ==
  /\ metrics.circuitBreakerTrips < MaxTripRecords
  /\ metrics' = recordCircuitBreakerTrip(metrics)
  /\ UNCHANGED <<latencies, samples, total, success, failure, recordedBefore>>
  /\ UNCHANGED otherThanMetrics

\* Mutation of resetMetrics: the trip count survives the reset.
resetMetrics_KeepsTrips(m) ==
  [NewMetrics(m.lastResetAt + 1) EXCEPT !.circuitBreakerTrips = m.circuitBreakerTrips]

\* reset(): this.metrics = { ...zeros, lastResetAt: new Date().toISOString() }
resetMetrics(m) == NewMetrics(m.lastResetAt + 1)

\* reset()
MetricsReset ==
  /\ metrics.lastResetAt < MaxResets
  /\ metrics' = resetMetrics(metrics)
  /\ latencies' = << >>
  /\ UNCHANGED <<samples, total, success, failure, recordedBefore>>
  /\ UNCHANGED otherThanMetrics

(***************************************************************************)
(* utils/metrics.ts: recordSample, percentile, metricsSummary              *)
(***************************************************************************)
MaxWindow == 2000

\* percentile(arr, p)
percentile(arr, p) ==
  IF Len(arr) = 0 THEN 0
  ELSE LET idx == (p * (Len(arr) - 1)) \div 100
       IN  Sorted(arr)[idx + 1]

\* metricsSummary(), without lastReset: null
metricsSummary ==
  LET lat == [i \in 1 .. Len(samples) |-> samples[i].ms]
  IN  [totalRequests |-> total,
       success |-> success,
       failure |-> failure,
       successRate |-> IF total # 0 THEN RoundDiv(success * 100, total) ELSE 0,
       avgLatencyMs |-> IF Len(lat) # 0 THEN RoundDiv(SumSeq(lat), Len(lat)) ELSE 0,
       p95LatencyMs |-> percentile(lat, 95),
       windowSize |-> Len(samples)]

\* recordSample(ok, ms); the field "at" of a sample is never read and is left out
RecordSample ==
  \E ok \in BOOLEAN, ms \in Latencies :
    /\ metrics.totalRequests + total < recordedBefore + MaxRecords
    /\ total' = total + 1
    /\ IF ok THEN success' = success + 1 /\ UNCHANGED failure
             ELSE failure' = failure + 1 /\ UNCHANGED success
    /\ LET pushed == Append(samples, [ok |-> ok, ms |-> ms])
       IN  samples' = IF Len(pushed) > MaxWindow THEN Tail(pushed) ELSE pushed
    /\ UNCHANGED <<metrics, latencies, recordedBefore>>
    /\ UNCHANGED otherThanMetrics

MetricsAtRest ==
  /\ metrics = NewMetrics(0)
  /\ latencies = << >>
  /\ samples = << >>
  /\ total = 0
  /\ success = 0
  /\ failure = 0
  /\ recordedBefore = 0

BreakerAtRest ==
  /\ cb = NewBreaker
  /\ now = 0
  /\ running = [pass |-> 0, probe |-> 0]
  /\ step = "init"
  /\ calls = 0
  /\ trips = 0

\* No call of withRetry is made.
NoRetryCall ==
  /\ maxRetries = 0
  /\ baseDelayMs = 1000
  /\ shouldRetryFn = FALSE
  /\ RetryAtRest

(***************************************************************************)
(* LoadTester                                                              *)
(***************************************************************************)
\* What fetch() of makeRequest ends with: a response with its status (the
\* API's 200, 500 and 503), or a rejection (network error or the 10 s abort),
\* written as status 0.
FetchOutcomes == {200, 500, 503, 0}

\* performance.now() - startTime of a request, in ms.
TestLatencies == {100, 7000}

otherThanLoad == <<breakerVars, retryVars, limiterVars, metricsVars, fetchVars>>

\* private makeRequest(url): the TestResult it resolves with. The try block
\* returns success: true for every response, the catch block success: false
\* with statusCode 0.
makeRequest(outcome, latencyMs) ==
  IF outcome # 0
    THEN [success |-> TRUE, latencyMs |-> latencyMs, statusCode |-> outcome]
    ELSE [success |-> FALSE, latencyMs |-> latencyMs, statusCode |-> 0]

\* private generateSummary(): the counts, the success rate in 1/100 of a
\* percent (toFixed(2)) and the verdict, which compares the unrounded
\* values; with no result both quotients are NaN and every comparison false.
generateSummary(res) ==
  LET n == Len(res)
      successfulRequests == Cardinality({i \in 1 .. n : res[i].success})
      latencySum == SumSeq([i \in 1 .. n |-> res[i].latencyMs])
  IN  [totalRequests |-> n,
       successfulRequests |-> successfulRequests,
       failedRequests |-> n - successfulRequests,
       successRate |-> IF n > 0 THEN RoundDiv(successfulRequests * 100 * 100, n) ELSE 0,
       slaCompliant |-> /\ n > 0
                        /\ latencySum <= 6000 * n
                        /\ successfulRequests * 100 >= 95 * n]

NoSummary == [totalRequests |-> 0, successfulRequests |-> 0, failedRequests |-> 0,
              successRate |-> 0, slaCompliant |-> FALSE]

\* The callback of setInterval: sendRequest() up to its await, when the
\* concurrency limit and the target allow it.
SendRequest ==
  /\ summary = NoSummary
  /\ testActive < testConcurrency
  /\ requestCount < targetRequests
  /\ testActive' = testActive + 1
  /\ requestCount' = requestCount + 1
  /\ UNCHANGED <<targetRequests, testConcurrency, testResults, summary>>
  /\ UNCHANGED otherThanLoad

\* await this.makeRequest(url) resolved: the result is pushed, and the
\* finally block gives the slot back.
RequestSettles ==
  \E outcome \in FetchOutcomes, latencyMs \in TestLatencies :
    /\ testActive > 0
    /\ testResults' = Append(testResults, makeRequest(outcome, latencyMs))
    /\ testActive' = testActive - 1
    /\ UNCHANGED <<targetRequests, testConcurrency, requestCount, summary>>
    /\ UNCHANGED otherThanLoad

\* The wait loop of runTest ends and generateSummary is returned.
TestEnds ==
  /\ summary = NoSummary
  /\ ~(testActive > 0 \/ requestCount < targetRequests)
  /\ summary' = generateSummary(testResults)
  /\ UNCHANGED <<targetRequests, testConcurrency, requestCount, testActive, testResults>>
  /\ UNCHANGED otherThanLoad

LoadTestAtRest ==
  /\ targetRequests = 0
  /\ testConcurrency = 0
  /\ requestCount = 0
  /\ testActive = 0
  /\ testResults = << >>
  /\ summary = NoSummary

(***************************************************************************)
(* fetchPagedCompositeCards and its callers                                *)
(***************************************************************************)
\* Two callers at a time (the server's limiter admits as many as configured).
FetchIds == {"a", "b"}

\* A message is kept as its text and the set of the substrings the code
\* tests for (String.includes) that occur in it.
CircuitOpenMark == "Circuit breaker is OPEN"

\* throw new Error('Circuit breaker is OPEN - failing fast') in execute()
circuitOpenError ==
  [message |-> "Circuit breaker is OPEN - failing fast", has |-> {CircuitOpenMark}]

\* The errors an attempt can end with inside the try block of scrapeFn:
\* status and code are the properties of the error object (0 and "" when absent).
\*  - a 429 response: the fixed message, no status property
\*  - a 400 response: `HTTP ${statusCode}: ${errorBody}`, error.status = 400
\*  - a 400 response whose body holds the words of the breaker's message
\*  - a connect timeout raised by the HTTP client
RawErrors ==
  { [message |-> "Rate limited - too many requests. Increase delays between requests.",
     status |-> 0, code |-> "", has |-> {}],
    [message |-> "HTTP 400: Bad Request",
     status |-> 400, code |-> "", has |-> {"HTTP 4"}],
    [message |-> "HTTP 400: Circuit breaker is OPEN",
     status |-> 400, code |-> "", has |-> {"HTTP 4", CircuitOpenMark}],
    [message |-> "connect ETIMEDOUT",
     status |-> 0, code |-> "ETIMEDOUT", has |-> {}] }

\* The latency every attempt of a logical request measures.
FetchLatency == 6000

\* options.maxRetries of fetchPagedCompositeCards: no retry, and two retries.
FetchRetries == {0, 2}

\* "Enhanced error classification" in the catch block of scrapeFn: the
\* message of the error that is thrown on (new Error(enhancedError), which
\* has no status property).
enhancedError(error) ==
  IF \/ error.code = "UND_ERR_HEADERS_INVALID"
     \/ "Invalid header value" \in error.has
     \/ "header value char" \in error.has
    THEN [message |-> "HTTP header error - proxy may be corrupting headers", has |-> {}]
  ELSE IF error.code = "ECONNREFUSED" \/ "ECONNREFUSED" \in error.has
    THEN [message |-> "Connection refused - proxy server may be down", has |-> {}]
  ELSE IF error.code = "ETIMEDOUT" \/ "timeout" \in error.has
    THEN [message |-> "Connection timeout - network or proxy too slow", has |-> {"timeout"}]
  ELSE IF error.code = "ENOTFOUND" \/ "ENOTFOUND" \in error.has
    THEN [message |-> "DNS resolution failed - check proxy or network", has |-> {}]
  ELSE IF "socket hang up" \in error.has
    THEN [message |-> "Connection dropped - server closed connection", has |-> {}]
  ELSE IF "Forbidden" \in error.has
    THEN [message |-> "Access denied by Naver - blocked IP or bot detection", has |-> {}]
  ELSE IF "CERT" \in error.has \/ "certificate" \in error.has
    THEN [message |-> "SSL certificate error - proxy SSL issue", has |-> {"certificate"}]
  ELSE [message |-> error.message, has |-> error.has]

\* Mutation of finalError: the number is withRetry's zero-based attempt index.
finalError_RetryIndex(attempts, error) ==
  [attempts |-> IF attempts > 0 THEN attempts - 1 ELSE 0,
   message |-> error.message, has |-> error.has]

\* new Error(`Scraping failed after ${attempts} attempts: ${error.message}`):
\* the number and the message it is built from; the words around them hold
\* none of the substrings tested.
finalError(attempts, error) ==
  [attempts |-> attempts, message |-> error.message, has |-> error.has]

\* The status code the catch block of GET /naver replies with.
naverStatusCode(error) ==
  IF CircuitOpenMark \in error.has THEN 503
  ELSE IF "HTTP 4" \in error.has THEN 502
  ELSE IF "timeout" \in error.has THEN 504
  ELSE 500

\* The status code of GET /health.
healthStatusCode(m) ==
  LET sla == checkSLA(m)
  IN  IF sla.avgLatencyOk /\ sla.errorRateOk THEN 200 ELSE 503

\* No reply of GET /health or GET /metrics in the last step.
NoReply == [handler |-> "none"]

NoFinalError == [attempts |-> 0, message |-> "", has |-> {}]

\* One logical request: the locals of fetchPagedCompositeCards and of the
\* withRetry call inside it, what the call settled with, and counts of what
\* it did to the shared objects (observation).
\* Who called fetchPagedCompositeCards: processUrl of the batch for a url
\* index, a handler of the server inside limit() for a request, or neither.
NoCaller == <<"none", 0>>

\* The callers whose call of fetchPagedCompositeCards is due: they hold their
\* slot and have reached the call, and no call has been made for them.
CallersDue ==
  LET holding == {<<"url", u>> : u \in {v \in Urls : urlPc[v] = "fetching"}}
                   \cup {<<"req", r>> : r \in {q \in Requests : reqPc[q] = "fetching"}}
      due == {c \in holding : \A f \in FetchIds : fetchers[f].caller # c}
  IN  IF due = {} THEN {NoCaller} ELSE due

NewFetch ==
  [pc |-> "idle",          \* "idle", "attempting", "backoff", "returned", "failed"
   caller |-> NoCaller,    \* who called fetchPagedCompositeCards
   attempts |-> 0,         \* let attempts
   attempt |-> 0,          \* the loop variable of withRetry
   metadataAttempts |-> 0, \* result.metadata.attempts of the resolved call
   error |-> NoFinalError, \* the error the call rejected with
   lastMessage |-> "",     \* message of the error withRetry or execute() threw (observation)
   rejected |-> FALSE,     \* execute() threw at its gate
   statusCode |-> 0,       \* reply code of the handler (200 for a result)
   successRecords |-> 0,   \* calls of metrics.recordSuccess
   failureRecords |-> 0,   \* calls of metrics.recordFailure
   tripRecords |-> 0,      \* calls of metrics.recordCircuitBreakerTrip
   onRetries |-> 0,        \* calls of options.onRetry
   backoffs |-> 0,         \* calls of sleep(delay) in withRetry
   breakerSuccesses |-> 0, \* calls of onSuccess for this request
   breakerFailures |-> 0]  \* calls of onFailure for this request

FetchSettled(f) == fetchers[f].pc \in {"idle", "returned", "failed"}

\* The record a new call takes: the callers being interchangeable, the first
\* one that is not under way.
FetchFree(f) ==
  /\ FetchSettled(f)
  /\ f = "b" => ~FetchSettled("a")

\* What no step of a logical request changes.
fetchFrame ==
  /\ UNCHANGED <<threshold, now, running, calls, trips>>
  /\ UNCHANGED <<retryVars, limiterVars, loadVars>>
  /\ UNCHANGED <<samples, total, success, failure, recordedBefore, resetFrom>>
  /\ reply' = NoReply

\* fetchPagedCompositeCards(url) is called while the breaker rejects: execute
\* throws, and the catch block counts a trip and throws the final error; the
\* handler of GET /naver replies.
FetchRejected ==
  \E f \in FetchIds, c \in CallersDue :
    /\ FetchFree(f)
    /\ fetchCalls < MaxFetches
    /\ executeRejects(cb, now)
    /\ fetchCalls' = fetchCalls + 1
    /\ metrics' = recordCircuitBreakerTrip(metrics)
    /\ LET err == finalError(0, circuitOpenError)
       IN  fetchers' = [fetchers EXCEPT ![f] =
             [NewFetch EXCEPT !.pc = "failed", !.caller = c,
                              !.rejected = TRUE, !.error = err,
                              !.lastMessage = circuitOpenError.message,
                              !.tripRecords = 1, !.statusCode = naverStatusCode(err)]]
    /\ step' = "fetch-rejected"
    /\ UNCHANGED <<cb, latencies, completedAttempts>>
    /\ fetchFrame

\* fetchPagedCompositeCards(url) is called and the breaker admits the call:
\* withRetry starts and scrapeFn is invoked for the first time (attempts++),
\* up to its first suspension.
FetchAdmitted ==
  \E f \in FetchIds, c \in CallersDue :
    /\ FetchFree(f)
    /\ fetchCalls < MaxFetches
    /\ ~executeRejects(cb, now)
    /\ fetchCalls' = fetchCalls + 1
    /\ cb' = executeGate(cb, now)
    /\ fetchers' = [fetchers EXCEPT ![f] =
                      [NewFetch EXCEPT !.pc = "attempting", !.caller = c,
                                       !.attempts = 1]]
    /\ step' = "fetch-admitted"
    /\ UNCHANGED <<metrics, latencies, completedAttempts>>
    /\ fetchFrame

\* The attempt resolved: scrapeFn records the success and returns the result
\* with metadata.attempts; withRetry returns it, execute() calls onSuccess()
\* and fetchPagedCompositeCards returns it; the handler replies.
ScrapeSucceeds ==
  \E f \in FetchIds :
    /\ fetchers[f].pc = "attempting"
    /\ metrics' = recordSuccess(metrics, latencies, FetchLatency)
    /\ latencies' = pushLatency(latencies, FetchLatency)
    /\ completedAttempts' = completedAttempts + 1
    /\ cb' = onSuccess(cb)
    /\ fetchers' = [fetchers EXCEPT ![f] =
         [@ EXCEPT !.pc = "returned",
                   !.metadataAttempts = fetchers[f].attempts,
                   !.statusCode = 200,
                   !.successRecords = @ + 1,
                   !.breakerSuccesses = @ + 1]]
    /\ step' = "fetch-returned"
    /\ UNCHANGED fetchCalls
    /\ fetchFrame

\* Mutation of breakerAfterAttempt: the breaker wraps each attempt.
breakerAfterAttempt_EachAttempt(b, stop, t, th) == onFailure(b, t, th)

\* circuitBreaker.execute(() => withRetry(scrapeFn, ...)): the breaker after
\* a failed attempt. The operation the breaker runs is the whole withRetry
\* call, so onFailure() runs only when withRetry stops and throws.
breakerAfterAttempt(b, stop, t, th) ==
  IF stop THEN onFailure(b, t, th) ELSE b

\* The attempt threw: the catch block of scrapeFn records the failure and
\* throws new Error(enhancedError); the catch block of withRetry either
\* stops (last attempt, or not to be retried) or notifies onRetry and
\* suspends in sleep(delay). When it stops, execute() calls onFailure() and
\* the catch block of fetchPagedCompositeCards throws the final error, after
\* counting a trip if the message holds the breaker's words; the handler
\* replies.
ScrapeFails ==
  \E f \in FetchIds, raw \in RawErrors :
    LET me       == fetchers[f]
        thrownOn == enhancedError(raw)
        error    == [status |-> 0, n |-> me.attempts, custom |-> FALSE]
        stop     == \/ me.attempt = maxRetries
                    \/ ~shouldRetryCustom(error, me.attempt, maxRetries, FALSE)
        final    == finalError(me.attempts, thrownOn)
        recorded == recordFailure(metrics, latencies, FetchLatency, raw.status)
        tripped  == CircuitOpenMark \in thrownOn.has
    IN  /\ me.pc = "attempting"
        /\ latencies' = pushLatency(latencies, FetchLatency)
        /\ completedAttempts' = completedAttempts + 1
        /\ cb' = breakerAfterAttempt(cb, stop, now, threshold)
        /\ IF stop
             THEN /\ metrics' = IF tripped THEN recordCircuitBreakerTrip(recorded)
                                           ELSE recorded
                  /\ fetchers' = [fetchers EXCEPT ![f] =
                       [@ EXCEPT !.pc = "failed",
                                 !.lastMessage = thrownOn.message,
                                 !.error = final,
                                 !.statusCode = naverStatusCode(final),
                                 !.failureRecords = @ + 1,
                                 !.tripRecords = IF tripped THEN @ + 1 ELSE @,
                                 !.breakerFailures = @ + 1]]
                  /\ step' = "fetch-failed"
             ELSE /\ metrics' = recorded
                  /\ fetchers' = [fetchers EXCEPT ![f] =
                       [@ EXCEPT !.pc = "backoff",
                                 !.failureRecords = @ + 1,
                                 !.onRetries = @ + 1,
                                 !.backoffs = @ + 1]]
                  /\ step' = "fetch-retry"
        /\ UNCHANGED fetchCalls
        /\ fetchFrame

\* Mutation of nextIteration: the loop goes on without awaiting the
\* operation.
nextIteration_NotAwaited(me) ==
  me.pc \in {"attempting", "backoff"} /\ me.attempt < maxRetries

\* When the for loop of withRetry reaches its next iteration: await
\* operation() has thrown and await sleep(delay) has resolved.
nextIteration(me) == me.pc = "backoff"

\* The timer of withRetry's sleep(delay) fired: attempt++, and scrapeFn is
\* invoked again (attempts++), up to its first suspension.
BackoffDone ==
  \E f \in FetchIds :
    /\ nextIteration(fetchers[f])
    /\ fetchers' = [fetchers EXCEPT ![f] =
         [@ EXCEPT !.pc = "attempting", !.attempt = @ + 1, !.attempts = @ + 1]]
    /\ step' = "fetch-attempt"
    /\ UNCHANGED <<cb, metrics, latencies, fetchCalls, completedAttempts>>
    /\ fetchFrame

\* POST /metrics/reset: metrics.reset(); resetCircuitBreaker(). (The cookie
\* refresh that follows touches neither.)
PostMetricsReset ==
  /\ metrics.lastResetAt < MaxResets
  /\ metrics' = resetMetrics(metrics)
  /\ latencies' = << >>
  /\ cb' = resetBreaker(cb)
  /\ completedAttempts' = 0
  /\ resetFrom' = cb.state
  /\ step' = "reset"
  /\ UNCHANGED <<threshold, now, running, calls, trips>>
  /\ UNCHANGED <<retryVars, limiterVars, loadVars>>
  /\ UNCHANGED <<samples, total, success, failure, recordedBefore, fetchers, fetchCalls>>
  /\ reply' = NoReply

\* Time passes beyond the breaker's timeout while requests are under way.
TimePasses ==
  /\ now + Timeout + 1 <= MaxTicks * (Timeout + 1)
  /\ now' = now + Timeout + 1
  /\ step' = "tick"
  /\ reply' = NoReply
  /\ UNCHANGED <<cb, threshold, running, calls, trips>>
  /\ UNCHANGED <<retryVars, limiterVars, metricsVars, loadVars>>
  /\ UNCHANGED <<fetchers, fetchCalls, completedAttempts, resetFrom>>

\* GET /health: getCircuitBreakerStatus(), metrics.getMetrics(),
\* metrics.checkSLA() and metrics.getSuccessRate(), then the reply.
HealthRequest ==
  LET circuitBreakerState == getState(cb, now)
      metricsData == getMetrics(metrics)
      sla == checkSLA(metrics)
  IN  /\ cb' = circuitBreakerState.self
      /\ reply' = [handler |-> "health",
                   statusCode |-> healthStatusCode(metrics),
                   circuitBreaker |-> circuitBreakerState.result,
                   sla |-> sla,
                   metrics |-> [totalRequests |-> metricsData.totalRequests,
                                successRate |-> getSuccessRate(metrics),
                                averageLatency |-> metricsData.averageLatencyMs]]
      /\ step' = "health"
      /\ UNCHANGED <<threshold, now, running, calls, trips>>
      /\ UNCHANGED <<retryVars, limiterVars, metricsVars, loadVars>>
      /\ UNCHANGED <<fetchers, fetchCalls, completedAttempts, resetFrom>>

\* GET /metrics: the same accessors, the snapshot spread into the reply.
MetricsRequest ==
  LET metricsData == getMetrics(metrics)
      circuitBreakerState == getState(cb, now)
  IN  /\ cb' = circuitBreakerState.self
      /\ reply' = [handler |-> "metrics",
                   statusCode |-> 200,
                   circuitBreaker |-> circuitBreakerState.result,
                   sla |-> checkSLA(metrics),
                   metrics |-> [totalRequests |-> metricsData.totalRequests,
                                successRate |-> getSuccessRate(metrics),
                                averageLatency |-> metricsData.averageLatencyMs]]
      /\ step' = "metrics"
      /\ UNCHANGED <<threshold, now, running, calls, trips>>
      /\ UNCHANGED <<retryVars, limiterVars, metricsVars, loadVars>>
      /\ UNCHANGED <<fetchers, fetchCalls, completedAttempts, resetFrom>>

FetchAtRest ==
  /\ fetchers = [f \in FetchIds |-> NewFetch]
  /\ fetchCalls = 0
  /\ completedAttempts = 0
  /\ resetFrom = "none"
  /\ reply = NoReply

\* The breaker after the n-th of n failed operations at time t, none having
\* succeeded, for n <= MinimumSampleSize: the first n - 1 failures are fewer
\* than the sample floor and leave a new breaker CLOSED, the last one is
\* counted by onFailure.
breakerAfterFailures(n, t, th) ==
  IF n = 0 THEN NewBreaker
  ELSE onFailure([NewBreaker EXCEPT !.failures = n - 1, !.lastFailureTime = t], t, th)

\* The metrics after n failed attempts of latency FetchLatency and no status:
\* the two counters each recordFailure increments, and the latency figures
\* as updateLatencyMetrics leaves them for the buffer lat of n latencies.
metricsAfterFailures(n, lat) ==
  updateLatencyMetrics([NewMetrics(0) EXCEPT !.totalRequests = n, !.failedRequests = n], lat)

\* The logical requests that have failed, one after the other, before the
\* ones followed step by step: none, one fewer than the breaker needs to
\* open, or as many as it needs.
FailedBefore == {0, MinimumSampleSize - 1, MinimumSampleSize}

\* The breaker as constructed, with the configured threshold.
Init ==
  /\ threshold \in Thresholds
  /\ BreakerAtRest
  /\ NoRetryCall
  /\ NoLimiterUse
  /\ MetricsAtRest
  /\ FetchAtRest
  /\ LoadTestAtRest

Next ==
  \/ ExecuteRejected
  \/ ExecuteInvoke
  \/ OperationSucceeds
  \/ OperationFails
  \/ Reset
  \/ Tick

Spec == Init /\ [][Next]_vars

\* One call of withRetry with any options, the breaker untouched.
InitRetry ==
  /\ maxRetries \in 0 .. MaxRetriesOption
  /\ baseDelayMs \in BaseDelays
  /\ shouldRetryFn \in BOOLEAN
  /\ RetryAtRest
  /\ threshold = 50
  /\ BreakerAtRest
  /\ NoLimiterUse
  /\ MetricsAtRest
  /\ FetchAtRest
  /\ LoadTestAtRest

NextRetry ==
  \/ RetryStart
  \/ AttemptSucceeds
  \/ AttemptFails
  \/ SleepDone

SpecRetry == InitRetry /\ [][NextRetry]_vars

\* sleep(ms, jitter) called on its own, for each target and jitter.
InitSleep ==
  /\ maxRetries = 0
  /\ baseDelayMs = 1000
  /\ shouldRetryFn = FALSE
  /\ attempt = 0
  /\ retryPc = "start"
  /\ invocations = 0
  /\ lastError = NoError
  /\ thrown = NoError
  /\ onRetryLog = << >>
  /\ delay \in {ms * Scale : ms \in SleepTargets}
  /\ waitMs = 0
  /\ sleepJitter \in SleepJitters
  /\ sleeps = 0
  /\ allRetryable = TRUE
  /\ threshold = 50
  /\ BreakerAtRest
  /\ NoLimiterUse
  /\ MetricsAtRest
  /\ FetchAtRest
  /\ LoadTestAtRest

NextSleep ==
  \/ SleepCall
  \/ SleepTimer

SpecSleep == InitSleep /\ [][NextSleep]_vars

\* One call of batchFetchPagedCompositeCards, with options.concurrency from 0
\* up, and the server's requests, whose limiter has a capacity from 1 up
\* (pLimit throws for any other, and the server does not start).
InitLimiter ==
  /\ concurrency \in 0 .. MaxConcurrency
  /\ limitCapacity \in 1 .. MaxConcurrency
  /\ LimiterAtRest
  /\ threshold = 50
  /\ BreakerAtRest
  /\ NoRetryCall
  /\ MetricsAtRest
  /\ FetchAtRest
  /\ LoadTestAtRest

NextLimiter ==
  \/ ProcessUrlStart
  \/ ProcessUrlWake
  \/ ProcessUrlFetch
  \/ ProcessUrlResolved
  \/ ProcessUrlRejected
  \/ NaverRequest
  \/ NaverResolved
  \/ NaverRejected

SpecLimiter == InitLimiter /\ [][NextLimiter]_vars

\* The two limiters share nothing, so for what each of them does in the end
\* it is enough to let them run in turn: the server's requests arrive once
\* the batch is over.
BatchOver == \A u \in Urls : urlPc[u] = "done"

NaverRequestInTurn == BatchOver /\ NaverRequest
NaverResolvedInTurn == BatchOver /\ NaverResolved
NaverRejectedInTurn == BatchOver /\ NaverRejected

NextLimiterInTurn ==
  \/ ProcessUrlStart
  \/ ProcessUrlWake
  \/ ProcessUrlFetch
  \/ ProcessUrlResolved
  \/ ProcessUrlRejected
  \/ NaverRequestInTurn
  \/ NaverResolvedInTurn
  \/ NaverRejectedInTurn

\* The scheduling the event loop gives: a call that can start starts, the
\* timer of every sleep fires, and every fetch settles one way or the other.
LimiterFairness ==
  /\ WF_vars(ProcessUrlStart)
  /\ WF_vars(ProcessUrlWake)
  /\ WF_vars(ProcessUrlFetch)
  /\ WF_vars(ProcessUrlResolved \/ ProcessUrlRejected)
  /\ WF_vars(NaverRequestInTurn)
  /\ WF_vars(NaverResolvedInTurn \/ NaverRejectedInTurn)

SpecLimiterFair == InitLimiter /\ [][NextLimiterInTurn]_vars /\ LimiterFairness

\* The two metrics modules under any sequence of their operations.
InitMetrics ==
  /\ MetricsAtRest
  /\ threshold = 50
  /\ BreakerAtRest
  /\ NoRetryCall
  /\ NoLimiterUse
  /\ FetchAtRest
  /\ LoadTestAtRest

NextMetrics ==
  \/ RecordSuccess
  \/ RecordFailure
  \/ RecordCircuitBreakerTrip
  \/ MetricsReset
  \/ RecordSample

SpecMetrics == InitMetrics /\ [][NextMetrics]_vars

\* Concurrent calls of fetchPagedCompositeCards through the handlers of the
\* server, sharing the breaker and the metrics, with operator resets.
InitFetch ==
  /\ threshold = 50
  /\ maxRetries \in FetchRetries
  /\ baseDelayMs = 3000
  /\ shouldRetryFn = FALSE
  /\ RetryAtRest
  /\ \E h \in FailedBefore :
       LET n == h * (maxRetries + 1)
       IN  /\ cb = breakerAfterFailures(h, 0, threshold)
           /\ latencies = [i \in 1 .. n |-> FetchLatency]
           /\ metrics = metricsAfterFailures(n, latencies)
           /\ completedAttempts = n
  /\ now = 0
  /\ running = [pass |-> 0, probe |-> 0]
  /\ step = "init"
  /\ calls = 0
  /\ trips = 0
  /\ NoLimiterUse
  /\ samples = << >>
  /\ total = 0
  /\ success = 0
  /\ failure = 0
  /\ recordedBefore = 0
  /\ fetchers = [f \in FetchIds |-> NewFetch]
  /\ fetchCalls = 0
  /\ resetFrom = "none"
  /\ reply = NoReply
  /\ LoadTestAtRest

NextFetch ==
  \/ FetchRejected
  \/ FetchAdmitted
  \/ ScrapeSucceeds
  \/ ScrapeFails
  \/ BackoffDone
  \/ PostMetricsReset
  \/ TimePasses

SpecFetch == InitFetch /\ [][NextFetch]_vars

\* The same requests with the monitoring endpoints polled in between, and no
\* operator reset.
NextRead ==
  \/ FetchRejected
  \/ FetchAdmitted
  \/ ScrapeSucceeds
  \/ ScrapeFails
  \/ BackoffDone
  \/ TimePasses
  \/ HealthRequest
  \/ MetricsRequest

SpecRead == InitFetch /\ [][NextRead]_vars

\* One call of runTest, nothing else of the program running in this process.
InitLoadTest ==
  /\ targetRequests \in 1 .. MaxLoadRequests
  /\ testConcurrency \in 1 .. MaxLoadRequests
  /\ requestCount = 0
  /\ testActive = 0
  /\ testResults = << >>
  /\ summary = NoSummary
  /\ threshold = 50
  /\ BreakerAtRest
  /\ NoRetryCall
  /\ NoLimiterUse
  /\ MetricsAtRest
  /\ FetchAtRest

NextLoadTest ==
  \/ SendRequest
  \/ RequestSettles
  \/ TestEnds

SpecLoadTest == InitLoadTest /\ [][NextLoadTest]_vars


\* The breaker left to itself, with no operator reset, after f failed and s
\* successful operations of which the last one failed at time 0, the ones
\* before it being fewer than the sample floor: one failure short of opening,
\* just opened, and with as many successes as failures.
RecoveryHistories ==
  { [failures |-> MinimumSampleSize - 1, successes |-> 0],
    [failures |-> MinimumSampleSize, successes |-> 0],
    [failures |-> MinimumSampleSize \div 2, successes |-> MinimumSampleSize \div 2] }

breakerAfterHistory(h, th) ==
  onFailure([NewBreaker EXCEPT !.failures = h.failures - 1, !.successes = h.successes], 0, th)

InitRecovery ==
  /\ threshold \in {40, 50}
  /\ \E h \in RecoveryHistories :
       /\ cb = breakerAfterHistory(h, threshold)
       /\ calls = h.failures + h.successes
  /\ trips = (IF cb.state = "OPEN" THEN 1 ELSE 0)
  /\ now = 0
  /\ running = [pass |-> 0, probe |-> 0]
  /\ step = "init"
  /\ NoRetryCall
  /\ NoLimiterUse
  /\ MetricsAtRest
  /\ FetchAtRest
  /\ LoadTestAtRest

NextRecovery ==
  \/ ExecuteRejected
  \/ ExecuteInvoke
  \/ OperationSucceeds
  \/ OperationFails
  \/ Tick

\* Requests keep arriving, every operation settles, and time passes.
RecoveryFairness ==
  /\ WF_vars(ExecuteInvoke)
  /\ WF_vars(OperationSucceeds \/ OperationFails)
  /\ WF_vars(Tick)

SpecRecovery == InitRecovery /\ [][NextRecovery]_vars /\ RecoveryFairness

\* A CLOSED breaker near its threshold: f failed and s successful operations
\* have completed, the successes first (the rate has stayed at or below the
\* threshold, or the samples below the floor), and as many operations as can
\* be in flight were admitted since and have not settled.
TripThresholds == {50, 55}

TripHistories ==
  { [failures |-> 4, successes |-> 5],
    [failures |-> 8, successes |-> 9] }

InitTrip ==
  /\ threshold \in TripThresholds
  /\ \E h \in TripHistories :
       /\ cb = [NewBreaker EXCEPT !.failures = h.failures, !.successes = h.successes]
       /\ calls = h.failures + h.successes + MaxInFlight
  /\ running = [pass |-> MaxInFlight, probe |-> 0]
  /\ trips = 0
  /\ now = 0
  /\ step = "init"
  /\ NoRetryCall
  /\ NoLimiterUse
  /\ MetricsAtRest
  /\ FetchAtRest
  /\ LoadTestAtRest

NextTrip ==
  \/ ExecuteRejected
  \/ ExecuteInvoke
  \/ OperationSucceeds
  \/ OperationFails
  \/ Tick

SpecTrip == InitTrip /\ [][NextTrip]_vars

\* The callers of fetchPagedCompositeCards that hold a limiter slot, running
\* the logical requests step by step: the batch and the server's handlers.
callerDone(c) ==
  \/ c = NoCaller
  \/ c[1] = "url" /\ urlPc[c[2]] = "done"
  \/ c[1] = "req" /\ reqPc[c[2]] \in {"replied", "failed"}

\* The continuation of a caller runs as soon as its call has settled, before
\* any timer lets another call start: a record is taken again only when the
\* caller of its last call has gone on.
RecordsGivenBack ==
  \A f \in FetchIds : FetchSettled(f) => callerDone(fetchers[f].caller)

\* Mutation of awaitedFetch: the caller goes on without awaiting its call.
awaitedFetch_NotAwaited(c, pcs) ==
  \E f \in FetchIds : fetchers[f].caller = c

\* await fetchPagedCompositeCards(url) in the caller c: the call made for c
\* has settled, resolved (pcs = {"returned"}) or rejected (pcs = {"failed"}).
awaitedFetch(c, pcs) ==
  \E f \in FetchIds : fetchers[f].caller = c /\ fetchers[f].pc \in pcs

\* server.ts never calls batchFetchPagedCompositeCards (POST /naver/batch maps
\* its urls through limit() itself): a process serves requests through the
\* server or runs the batch function of the library.
ServeProcessUrlStart == (\A r \in Requests : reqPc[r] = "new") /\ ProcessUrlStart
ServeNaverRequest == (\A u \in Urls : urlPc[u] = "new") /\ NaverRequest

ServeAdmitted == CallersDue # {NoCaller} /\ RecordsGivenBack /\ FetchAdmitted
ServeRejected == CallersDue # {NoCaller} /\ RecordsGivenBack /\ FetchRejected

ServeUrlResolved ==
  \E u \in Urls : awaitedFetch(<<"url", u>>, {"returned"}) /\ processUrlResolved(u)
ServeUrlRejected ==
  \E u \in Urls : awaitedFetch(<<"url", u>>, {"failed"}) /\ processUrlRejected(u)
ServeNaverResolved ==
  \E r \in Requests : awaitedFetch(<<"req", r>>, {"returned"}) /\ naverResolved(r)
ServeNaverRejected ==
  \E r \in Requests : awaitedFetch(<<"req", r>>, {"failed"}) /\ naverRejected(r)

InitServe ==
  /\ concurrency \in 1 .. MaxConcurrency
  /\ limitCapacity = concurrency
  /\ LimiterAtRest
  /\ threshold = 50
  /\ maxRetries = 1
  /\ baseDelayMs = 3000
  /\ shouldRetryFn = FALSE
  /\ RetryAtRest
  /\ \E h \in {MinimumSampleSize - 1} :  \* one failure short of opening
       LET n == h * (maxRetries + 1)
       IN  /\ cb = breakerAfterFailures(h, 0, threshold)
           /\ latencies = [i \in 1 .. n |-> FetchLatency]
           /\ metrics = metricsAfterFailures(n, latencies)
           /\ completedAttempts = n
  /\ now = 0
  /\ running = [pass |-> 0, probe |-> 0]
  /\ step = "init"
  /\ calls = 0
  /\ trips = 0
  /\ samples = << >>
  /\ total = 0
  /\ success = 0
  /\ failure = 0
  /\ recordedBefore = 0
  /\ fetchers = [f \in FetchIds |-> NewFetch]
  /\ fetchCalls = 0
  /\ resetFrom = "none"
  /\ reply = NoReply
  /\ LoadTestAtRest

NextServe ==
  \/ ServeProcessUrlStart
  \/ ProcessUrlWake
  \/ ProcessUrlFetch
  \/ ServeUrlResolved
  \/ ServeUrlRejected
  \/ ServeNaverRequest
  \/ ServeNaverResolved
  \/ ServeNaverRejected
  \/ ServeAdmitted
  \/ ServeRejected
  \/ ScrapeSucceeds
  \/ ScrapeFails
  \/ BackoffDone

SpecServe == InitServe /\ [][NextServe]_vars

\* The two metrics modules with their sample buffers full or one sample
\* short of it. The history is a run of successes, the oldest twentieth
\* (and one more in the larger buffer) slow ones, so that the slow samples
\* reach the p95 index; the last record of each history counts as the first
\* of the run.
bufferHistory(n, slow) == [i \in 1 .. n |-> IF i <= slow THEN 7000 ELSE 6000]

InitWindow ==
  /\ \E short \in {0, 1} :
       LET n1 == MAX_LATENCY_SAMPLES - short
           n2 == MaxWindow - short
           h2 == bufferHistory(n2, MaxWindow \div 20 + 1)
       IN  /\ latencies = bufferHistory(n1, MAX_LATENCY_SAMPLES \div 20)
           /\ metrics = updateLatencyMetrics(
                          [NewMetrics(0) EXCEPT !.totalRequests = n1,
                                                !.successfulRequests = n1],
                          latencies)
           /\ samples = [i \in 1 .. n2 |-> [ok |-> TRUE, ms |-> h2[i]]]
           /\ total = n2
           /\ success = n2
           /\ failure = 0
           /\ recordedBefore = (n1 - 1) + (n2 - 1)
  /\ threshold = 50
  /\ BreakerAtRest
  /\ NoRetryCall
  /\ NoLimiterUse
  /\ FetchAtRest
  /\ LoadTestAtRest

NextWindow ==
  \/ RecordSuccess
  \/ RecordFailure
  \/ RecordSample

SpecWindow == InitWindow /\ [][NextWindow]_vars

\* The collector used and reset while the breaker holds the counters of
\* earlier failures and both limiters have callers inside their calls: the
\* batch with its first urls holding the slots and the others waiting, the
\* server with its first requests running and the others queued.
InitReset ==
  /\ MetricsAtRest
  /\ threshold = 50
  /\ \E h \in FailedBefore : cb = breakerAfterFailures(h, 0, threshold)
  /\ now = 0
  /\ running = [pass |-> 0, probe |-> 0]
  /\ step = "init"
  /\ calls = 0
  /\ trips = 0
  /\ NoRetryCall
  /\ \E held \in 1 .. MaxConcurrency :
       /\ concurrency = held
       /\ activeRequests = held
       /\ urlPc = [u \in Urls |-> IF u <= held THEN "fetching" ELSE "waiting"]
       /\ results = [u \in Urls |-> "empty"]
       /\ limitCapacity = held
       /\ activeCount = held
       /\ reqPc = [r \in Requests |-> IF r <= held THEN "fetching" ELSE "queued"]
       /\ limitQueue = [i \in 1 .. NumRequests - held |-> held + i]
  /\ FetchAtRest
  /\ LoadTestAtRest

NextReset ==
  \/ RecordSuccess
  \/ RecordFailure
  \/ RecordCircuitBreakerTrip
  \/ MetricsReset

SpecReset == InitReset /\ [][NextReset]_vars

(***************************************************************************)
(* Claims about the circuit breaker (checked under Spec)                   *)
(***************************************************************************)
\* The steps that are a call of execute(): its three possible results.
ExecuteSteps == {"rejected", "invoked", "probe"}

\* C1: a call of execute made while the breaker is OPEN and no more than the
\* reset timeout after the last recorded failure is rejected with the
\* breaker-open error, invokes no operation and changes nothing of the
\* breaker, whatever the counters are.
C1_OpenRejectsWithoutInvoking ==
  [][ (/\ cb.state = "OPEN"
       /\ now - cb.lastFailureTime <= Timeout
       /\ step' \in ExecuteSteps)
      => (/\ step' = "rejected"
          /\ running' = running
          /\ calls' = calls
          /\ cb' = cb) ]_vars

\* A rejected call in an OPEN breaker that has counted successes and failures
\* and still has operations in flight.
C1_Witness ==
  /\ step = "rejected"
  /\ cb.state = "OPEN"
  /\ cb.successes > 0
  /\ InFlight > 0
  /\ now - cb.lastFailureTime = Timeout

\* No operation has succeeded and the counters were never cleared: every
\* operation invoked so far has failed or is still in flight.
OnlyFailuresSoFar == cb.failures + InFlight = calls

C2_StateByFailures ==
  (threshold < 100 /\ OnlyFailuresSoFar) =>
     /\ cb.failures < MinimumSampleSize => (cb.state = "CLOSED" /\ trips = 0)
     /\ cb.failures >= MinimumSampleSize => (cb.state # "CLOSED" /\ trips = 1)

\* C2: from a fresh breaker with a threshold below 100, while only failures
\* complete, the breaker is CLOSED after fewer than 10 failures, has gone
\* CLOSED -> OPEN exactly once from the 10th on, and a call made while it is
\* OPEN within the timeout is rejected, invokes nothing and causes no
\* transition.
C2_TenFailuresTripOnce ==
  /\ []C2_StateByFailures
  /\ [][ (/\ threshold < 100
          /\ OnlyFailuresSoFar
          /\ cb.failures >= MinimumSampleSize
          /\ cb.state = "OPEN"
          /\ now - cb.lastFailureTime <= Timeout
          /\ step' \in ExecuteSteps)
         => (/\ step' = "rejected"
             /\ running' = running
             /\ cb'.state = "OPEN"
             /\ trips' = trips) ]_vars

\* An 11th failure has been counted after the trip and a later call was rejected.
C2_Witness ==
  /\ threshold < 100
  /\ OnlyFailuresSoFar
  /\ cb.failures = MinimumSampleSize + 1
  /\ cb.state = "OPEN"
  /\ trips = 1
  /\ step = "rejected"

\* C3: while the breaker is HALF_OPEN and the probe admitted by the
\* OPEN -> HALF_OPEN transition has not settled, any other call of execute is
\* rejected and invokes no operation.
C3_OnlyOneProbeAdmitted ==
  [][ (/\ cb.state = "HALF_OPEN"
       /\ running.probe > 0
       /\ step' \in ExecuteSteps)
      => (step' = "rejected" /\ running' = running) ]_vars

\* C4: an operation that completes while the breaker is HALF_OPEN decides the
\* next state: a success closes the breaker, a failure reopens it and restarts
\* the timeout from that failure.
C4_HalfOpenOutcomeDecides ==
  [][ /\ (cb.state = "HALF_OPEN" /\ step' = "success") => cb'.state = "CLOSED"
      /\ (cb.state = "HALF_OPEN" /\ step' = "failure")
            => (cb'.state = "OPEN" /\ cb'.lastFailureTime = now) ]_vars

(***************************************************************************)
(* Claims about withRetry and calculateBackoffDelay (checked under         *)
(* SpecRetry)                                                              *)
(***************************************************************************)
\* C5: with maxRetries = k >= 1 and a retryable failure on every invocation
\* the operation is invoked exactly k times and the error propagated is the
\* k-th invocation's; with k = 1 it runs once, with no onRetry call and no
\* delay, whatever the failure is.
C5_InvokedExactlyMaxRetriesTimes ==
  /\ (retryPc = "thrown" /\ maxRetries >= 1 /\ allRetryable)
       => (invocations = maxRetries /\ thrown.n = maxRetries)
  /\ (retryPc = "thrown" /\ maxRetries = 1)
       => (invocations = 1 /\ onRetryLog = << >> /\ sleeps = 0)

\* What the code does with maxRetries = 1 and two retryable failures.
C5_Witness ==
  /\ retryPc = "thrown"
  /\ maxRetries = 1
  /\ allRetryable
  /\ invocations = 2
  /\ thrown.n = 2
  /\ onRetryLog = << <<1, 0>> >>
  /\ sleeps = 1

\* C6: once the attempt with index i below maxRetries has failed with a
\* failure classified non-retryable, withRetry has thrown that failure: the
\* operation was invoked i + 1 times and no onRetry call and no delay
\* followed the failure.
C6_NonRetryableStops ==
  LET i == lastError.n - 1
  IN  (/\ lastError.n >= 1
       /\ ~RetryableFailure(lastError, shouldRetryFn)
       /\ i < maxRetries)
      => (/\ retryPc = "thrown"
          /\ thrown = lastError
          /\ invocations = i + 1
          /\ attempt = i
          /\ Len(onRetryLog) = i
          /\ sleeps = i)

\* A 404 on the second of four allowed attempts, default classification.
C6_Witness ==
  /\ ~shouldRetryFn
  /\ maxRetries = 3
  /\ lastError.status = 404
  /\ lastError.n = 2
  /\ retryPc = "thrown"
  /\ invocations = 2

\* A retryable status that options.shouldRetryFn refuses to retry.
C6_WitnessShouldRetryFn ==
  /\ shouldRetryFn
  /\ maxRetries = 3
  /\ lastError.status = 503
  /\ ~lastError.custom
  /\ lastError.n = 2
  /\ retryPc = "thrown"
  /\ invocations = 2

\* min(baseDelay * 2^i, 30000), in ms
CappedExponential(i, base) ==
  IF base * 2^i < BackoffCapMs THEN base * 2^i ELSE BackoffCapMs

\* C10: the delay computed for attempt index i lies between
\* min(baseDelay * 2^i, 30000) and 1.3 times that value, hence never above
\* 30000 * 1.3.
C10_BackoffDelayBounds ==
  retryPc = "sleeping" =>
     /\ delay >= CappedExponential(attempt, baseDelayMs) * Scale
     /\ 10 * delay <= 13 * CappedExponential(attempt, baseDelayMs) * Scale
     /\ 10 * delay <= 13 * BackoffCapMs * Scale

\* A delay at the cap with jitter: 20000 * 2^1 > 30000.
C10_Witness ==
  /\ retryPc = "sleeping"
  /\ baseDelayMs = 20000
  /\ attempt = 1
  /\ delay > BackoffCapMs * Scale

(***************************************************************************)
(* Claims about the limiters (checked under SpecLimiter)                   *)
(***************************************************************************)
\* The holders of a slot, counted from where each caller stands.
BatchHolders == {u \in Urls : urlPc[u] \in {"delaying", "fetching"}}
LimitHolders == {r \in Requests : reqPc[r] = "fetching"}

\* C7: under every interleaving the number of operations holding a slot
\* never exceeds the capacity, in batchFetchPagedCompositeCards and in the
\* server's limiter; the counter is the number of holders, and it is 0 once
\* every caller has finished, failed ones included.
C7_SlotsWithinCapacity ==
  /\ Cardinality(BatchHolders) <= concurrency
  /\ activeRequests = Cardinality(BatchHolders)
  /\ (\A u \in Urls : urlPc[u] = "done") => activeRequests = 0
  /\ Cardinality(LimitHolders) <= limitCapacity
  /\ activeCount = Cardinality(LimitHolders)
  /\ (\A r \in Requests : reqPc[r] \in {"replied", "failed"}) => activeCount = 0

\* More callers than slots, all finished, some of them failed.
C7_Witness ==
  /\ concurrency < NumUrls
  /\ \A u \in Urls : urlPc[u] = "done"
  /\ \E u \in Urls : results[u] = "error"
  /\ activeRequests = 0
  /\ limitCapacity < NumRequests
  /\ \A r \in Requests : reqPc[r] \in {"replied", "failed"}
  /\ \E r \in Requests : reqPc[r] = "failed"
  /\ activeCount = 0

\* All slots taken while another caller waits.
C7_WitnessFull ==
  /\ activeRequests = concurrency
  /\ \E u \in Urls : urlPc[u] = "waiting"
  /\ activeCount = limitCapacity
  /\ limitQueue # << >>

(***************************************************************************)
(* Claims about the metrics modules (checked under SpecMetrics)            *)
(***************************************************************************)
\* C8: after any sequence of recordSuccess, recordFailure,
\* recordCircuitBreakerTrip and reset calls, and of recordSample calls,
\* totalRequests = successfulRequests + failedRequests in both modules.
C8_TotalIsSuccessesPlusFailures ==
  /\ metrics.totalRequests = metrics.successfulRequests + metrics.failedRequests
  /\ total = success + failure

\* Successes, failures and a trip recorded after a reset, and samples of both kinds.
C8_Witness ==
  /\ metrics.lastResetAt = 1
  /\ metrics.successfulRequests >= 1
  /\ metrics.failedRequests >= 2
  /\ metrics.circuitBreakerTrips = 1
  /\ success >= 1
  /\ failure >= 1

\* The reported rate r (in 1/unit %) is s / t * 100 rounded to the nearest unit.
IsRatio(r, s, t, unit) ==
  /\ 2 * (r * t - s * 100 * unit) <= t
  /\ 2 * (s * 100 * unit - r * t) <= t

\* C9: the reported success rate is successfulRequests / totalRequests * 100
\* (to the precision reported) when totalRequests > 0 and 100 when nothing
\* was recorded, in MetricsCollector.getSuccessRate (in 1/100 %) and in
\* metricsSummary (in %).
C9_SuccessRateIsTheRatio ==
  /\ metrics.totalRequests > 0
       => IsRatio(getSuccessRate(metrics), metrics.successfulRequests,
                  metrics.totalRequests, 100)
  /\ metrics.totalRequests = 0 => getSuccessRate(metrics) = 100 * 100
  /\ total > 0 => IsRatio(metricsSummary.successRate, success, total, 1)
  /\ total = 0 => metricsSummary.successRate = 100

\* One success in three records reported as 33.33, and no sample reported as 0.
C9_Witness ==
  /\ metrics.totalRequests = 3
  /\ metrics.successfulRequests = 1
  /\ getSuccessRate(metrics) = 3333
  /\ total = 0
  /\ metricsSummary.successRate = 0

(***************************************************************************)
(* Claims about fetchPagedCompositeCards and the handlers (checked under   *)
(* SpecFetch)                                                              *)
(***************************************************************************)
\* What a resolved logical request with j failed attempts before its
\* successful one has done.
C11_ResolvedRequest ==
  \A f \in FetchIds :
    fetchers[f].pc = "returned" =>
      LET me == fetchers[f]
          j  == me.attempts - 1
      IN  /\ j <= maxRetries
          /\ me.metadataAttempts = j + 1
          /\ me.successRecords = 1
          /\ me.failureRecords = j
          /\ me.onRetries = j
          /\ me.backoffs = j
          /\ me.breakerSuccesses = 1
          /\ me.breakerFailures = 0

C12_RejectionCountedAsFailure ==
  [][ step' = "fetch-rejected"
        => (/\ \A f \in FetchIds :
                 fetchers'[f] # fetchers[f] => fetchers'[f].attempts = 0
            /\ metrics'.failedRequests = metrics.failedRequests + 1
            /\ metrics'.totalRequests = metrics.totalRequests + 1
            /\ metrics'.circuitBreakerTrips = metrics.circuitBreakerTrips + 1) ]_vars

\* What the code does on a rejection: a trip is counted, no request is.
C12_Witness ==
  /\ step = "fetch-rejected"
  /\ metrics.circuitBreakerTrips = 1
  /\ metrics.failedRequests = MinimumSampleSize
  /\ metrics.totalRequests = MinimumSampleSize
  /\ cb.state = "OPEN"

\* C13: a failed call throws an error that carries the number of times
\* scrapeFn was invoked for it (0 for a rejection by the breaker) and the
\* message of the error that ended the call.
C13_FinalErrorCarriesAttemptsAndCause ==
  \A f \in FetchIds :
    fetchers[f].pc = "failed" =>
      LET me == fetchers[f]
      IN  /\ me.error.attempts = me.successRecords + me.failureRecords
          /\ me.error.attempts = me.attempts
          /\ me.error.message = me.lastMessage
          /\ me.rejected => (/\ me.error.attempts = 0
                             /\ me.error.message = circuitOpenError.message)
          /\ ~me.rejected => me.error.attempts = maxRetries + 1

\* A request that failed after three attempts, the last one a connect
\* timeout, and opened the breaker.
C13_Witness ==
  \E f \in FetchIds :
    /\ fetchers[f].pc = "failed"
    /\ ~fetchers[f].rejected
    /\ fetchers[f].error.attempts = 3
    /\ fetchers[f].error.message = "Connection timeout - network or proxy too slow"
    /\ fetchers[f].statusCode = 504
    /\ cb.state = "OPEN"

\* C14: every settled invocation of scrapeFn has made exactly one record,
\* a success or a failure, and totalRequests is the number of invocations
\* settled since the last reset of the metrics, over all logical requests.
C14_OneRecordPerAttempt ==
  /\ \A f \in FetchIds :
       LET me == fetchers[f]
           settled == IF me.pc = "attempting" THEN me.attempts - 1 ELSE me.attempts
       IN  /\ me.successRecords + me.failureRecords = settled
           /\ me.successRecords = (IF me.pc = "returned" THEN 1 ELSE 0)
  /\ metrics.totalRequests = completedAttempts
  /\ metrics.totalRequests = metrics.successfulRequests + metrics.failedRequests

\* Attempts of two requests settled after a reset, one still under way.
C14_Witness ==
  /\ metrics.lastResetAt = 1
  /\ metrics.totalRequests = 3
  /\ metrics.successfulRequests = 1
  /\ fetchers["a"].pc = "returned"
  /\ fetchers["a"].attempts = 2
  /\ fetchers["b"].pc = "attempting"
  /\ fetchers["b"].attempts = 2

\* C15: right after POST /metrics/reset the breaker is CLOSED with both
\* counters 0 and the metrics hold 0 requests, successes, failures and trips,
\* no error by status and an empty latency buffer, whatever the state before.
C15_ResetClearsBreakerAndMetrics ==
  step = "reset" =>
    /\ cb.state = "CLOSED"
    /\ cb.failures = 0
    /\ cb.successes = 0
    /\ metrics.totalRequests = 0
    /\ metrics.successfulRequests = 0
    /\ metrics.failedRequests = 0
    /\ metrics.circuitBreakerTrips = 0
    /\ \A st \in DOMAIN metrics.errorsByStatus : metrics.errorsByStatus[st] = 0
    /\ metrics.averageLatencyMs = 0
    /\ metrics.p95LatencyMs = 0
    /\ latencies = << >>

\* A reset that found the breaker HALF_OPEN with a probe under way.
C15_Witness ==
  /\ step = "reset"
  /\ resetFrom = "HALF_OPEN"
  /\ \E f \in FetchIds : fetchers[f].pc = "attempting"
  /\ cb.state = "CLOSED"

\* A reset that found the breaker OPEN.
C15_WitnessOpen ==
  /\ step = "reset"
  /\ resetFrom = "OPEN"
  /\ cb.state = "CLOSED"

\* C19: GET /naver answers 503 when, and only when, the logical request was
\* rejected by the OPEN breaker; a failure after at least one attempt
\* answers 500, 502 or 504.
C19_503OnlyForCircuitOpen ==
  \A f \in FetchIds :
    fetchers[f].pc = "failed" =>
      /\ (fetchers[f].statusCode = 503) <=> fetchers[f].rejected
      /\ fetchers[f].attempts >= 1 => fetchers[f].statusCode \in {500, 502, 504}

\* A request that made its attempts and was answered 503.
C19_Witness ==
  \E f \in FetchIds :
    /\ fetchers[f].pc = "failed"
    /\ fetchers[f].attempts = 3
    /\ ~fetchers[f].rejected
    /\ fetchers[f].statusCode = 503

(***************************************************************************)
(* Claims about checkSLA and GET /health (checked under SpecMetrics)       *)
(***************************************************************************)
\* The average of the latency buffer as the collector reports it, in 1/100 ms
\* (0 while nothing is recorded).
ReportedAverage ==
  IF latencies = << >> THEN 0 ELSE RoundDiv(SumSeq(latencies) * 100, Len(latencies))

\* The success rate as the collector reports it, in 1/100 % (100 % while
\* nothing is recorded).
ReportedSuccessRate ==
  IF metrics.totalRequests = 0 THEN 100 * 100
  ELSE RoundDiv(metrics.successfulRequests * 100 * 100, metrics.totalRequests)

\* C16: avgLatencyOk is true exactly when the average latency is at most
\* 6000 ms and errorRateOk exactly when the success rate is at least 95 %;
\* after successes of at most 6000 ms and no failure both are true; /health
\* answers 200 exactly when both are true and 503 otherwise.
C16_SLAFlagsAndHealth ==
  LET sla == checkSLA(metrics)
  IN  /\ sla.avgLatencyOk <=> (ReportedAverage <= 6000 * 100)
      /\ sla.errorRateOk <=> (ReportedSuccessRate >= 95 * 100)
      /\ (/\ metrics.failedRequests = 0
          /\ \A i \in 1 .. Len(latencies) : latencies[i] <= 6000)
           => (sla.avgLatencyOk /\ sla.errorRateOk)
      /\ (healthStatusCode(metrics) = 200) <=> (sla.avgLatencyOk /\ sla.errorRateOk)
      /\ healthStatusCode(metrics) \in {200, 503}

\* Three successes of exactly 6000 ms and no failure: both flags, 200.
C16_Witness ==
  /\ metrics.successfulRequests = 3
  /\ metrics.failedRequests = 0
  /\ latencies = <<6000, 6000, 6000>>
  /\ checkSLA(metrics).avgLatencyOk
  /\ checkSLA(metrics).errorRateOk
  /\ healthStatusCode(metrics) = 200

\* One slow success among fast ones: the average is over budget, 503.
C16_WitnessOverBudget ==
  /\ metrics.successfulRequests = 3
  /\ metrics.failedRequests = 0
  /\ latencies = <<6000, 7000, 6000>>
  /\ ~checkSLA(metrics).avgLatencyOk
  /\ checkSLA(metrics).errorRateOk
  /\ healthStatusCode(metrics) = 503

(***************************************************************************)
(* Claims about waiting for a slot (checked under SpecLimiterFair and      *)
(* SpecLimiter)                                                            *)
(***************************************************************************)
\* C17: with a capacity of at least 1, a caller that found all slots taken
\* starts only in a step that finds a slot free (batch) or in which a holder
\* gives its slot back (server), and every waiting caller eventually gets a
\* slot, every holder finishing.
C17_WaitersEventuallyRun ==
  /\ [][ \A u \in Urls :
           (urlPc[u] = "waiting" /\ urlPc'[u] # "waiting")
             => (/\ activeRequests < concurrency
                 /\ urlPc'[u] = "delaying"
                 /\ activeRequests' = activeRequests + 1) ]_vars
  /\ [][ \A r \in Requests :
           (reqPc[r] = "queued" /\ reqPc'[r] # "queued")
             => (/\ reqPc'[r] = "fetching"
                 /\ r = Head(limitQueue)
                 /\ \E h \in Requests : /\ reqPc[h] = "fetching"
                                        /\ reqPc'[h] \in {"replied", "failed"}) ]_vars
  /\ \A u \in Urls :
       (concurrency >= 1 /\ urlPc[u] = "waiting") ~> (urlPc[u] = "done")
  /\ \A r \in Requests :
       (reqPc[r] = "queued") ~> (reqPc[r] \in {"replied", "failed"})

\* With one slot and three callers, each caller of the batch has had the
\* slot in its turn, failed ones included; in the server the first request
\* is answered, the second holds the slot it queued for, the third queues.
C17_Witness ==
  /\ concurrency = 1
  /\ \A u \in Urls : urlPc[u] = "done"
  /\ \E u \in Urls : results[u] = "error"
  /\ limitCapacity = 1
  /\ reqPc[1] \in {"replied", "failed"}
  /\ reqPc[2] = "fetching"
  /\ limitQueue = <<3>>

\* C18: with options.concurrency = 0, batchFetchPagedCompositeCards fails
\* with an error when it sets up its limiter: no caller is left waiting for
\* a slot.
C18_ZeroCapacityRejected ==
  concurrency = 0 => \A u \in Urls : urlPc[u] # "waiting"

\* What the code does with concurrency 0: every caller waits, none holds a slot.
C18_Witness ==
  /\ concurrency = 0
  /\ \A u \in Urls : urlPc[u] = "waiting"
  /\ activeRequests = 0

(***************************************************************************)
(* Claims about recovery (checked under SpecRecovery)                      *)
(***************************************************************************)
\* The run has room left for the timeout to elapse after the last failure
\* and for one more call.
RecoveryBudget ==
  /\ calls < MaxCalls
  /\ cb.lastFailureTime + 2 * Timeout < MaxTicks * (Timeout + 1) + 1

\* C20: requests arriving and time passing, a breaker that is OPEN or
\* HALF_OPEN gets back to CLOSED and admits calls again with no reset, unless
\* one more operation fails first; so it does once every operation succeeds.
C20_RecoversWithoutReset ==
  (cb.state # "CLOSED" /\ RecoveryBudget)
    ~> ((cb.state = "CLOSED" /\ ~executeRejects(cb, now)) \/ step = "failure")

\* The breaker opened, the timeout elapsed, and the probe's success closed it.
C20_Witness ==
  /\ trips = 1
  /\ step = "success"
  /\ cb.state = "CLOSED"
  /\ cb.failures = 0
  /\ now - cb.lastFailureTime > Timeout
  /\ RecoveryBudget

(***************************************************************************)
(* Claims about the monitoring endpoints (checked under SpecRead)          *)
(***************************************************************************)
\* C21: GET /health and GET /metrics, and the accessors they call
\* (getState through getCircuitBreakerStatus, getMetrics, getSuccessRate,
\* checkSLA), leave the breaker's state, counters and last-failure time, the
\* metrics counters and the latency buffer as they were; getState does not
\* move an OPEN breaker to HALF_OPEN, and reports what the fields hold.
C21_ReadsChangeNothing ==
  [][ step' \in {"health", "metrics"}
      => (/\ cb' = cb
          /\ metrics' = metrics
          /\ latencies' = latencies
          /\ reply'.circuitBreaker.state = cb.state
          /\ reply'.circuitBreaker.failures = cb.failures
          /\ reply'.circuitBreaker.successes = cb.successes
          /\ reply'.metrics.totalRequests = metrics.totalRequests) ]_vars

\* GET /health answered while the breaker is OPEN and its timeout has
\* elapsed: the reply says OPEN, and 503 for the success rate.
C21_Witness ==
  /\ step = "health"
  /\ cb.state = "OPEN"
  /\ now - cb.lastFailureTime > Timeout
  /\ reply.circuitBreaker.state = "OPEN"
  /\ reply.circuitBreaker.errorRate = 100 * 100
  /\ reply.statusCode = 503
  /\ metrics.failedRequests >= MinimumSampleSize

\* GET /metrics answered while a request is under way.
C21_WitnessMetrics ==
  /\ step = "metrics"
  /\ reply.handler = "metrics"
  /\ \E f \in FetchIds : fetchers[f].pc = "attempting"
  /\ metrics.totalRequests > 0

(***************************************************************************)
(* Claims about the load tester (checked under SpecLoadTest)               *)
(***************************************************************************)
\* The requests of the test the API served successfully: a response with a
\* 2xx status.
ServedOk == {i \in 1 .. Len(testResults) : testResults[i].statusCode \in 200 .. 299}

\* C22: the verdict slaCompliant is true only if at least 95% of the requests
\* sent were served successfully by the API, an error status (503, 500)
\* counting as a failed request.
C22_VerdictOnRealOutcomes ==
  summary.slaCompliant => Cardinality(ServedOk) * 100 >= 95 * requestCount

\* Every request was answered with 503 or 500 and the verdict is compliant,
\* with a success rate of 100.
C22_Witness ==
  /\ summary.slaCompliant
  /\ summary.successRate = 100 * 100
  /\ requestCount = MaxLoadRequests
  /\ ServedOk = {}
  /\ \E i \in 1 .. Len(testResults) : testResults[i].statusCode = 503

(***************************************************************************)
(* Further claims about the circuit breaker (checked under Spec)           *)
(***************************************************************************)
\* C23: the failure and success counters are both zero right after every
\* CLOSED -> OPEN transition and right after every HALF_OPEN -> CLOSED
\* transition caused by a success.
C23_CountersZeroAfterTransition ==
  [][ (\/ cb.state = "CLOSED" /\ cb'.state = "OPEN"
       \/ cb.state = "HALF_OPEN" /\ cb'.state = "CLOSED" /\ step' = "success")
      => (cb'.failures = 0 /\ cb'.successes = 0) ]_vars

\* The 10th failure in a row has just opened the breaker: the counters hold
\* the ten failures.
C23_Witness ==
  /\ step = "failure"
  /\ OnlyFailuresSoFar
  /\ InFlight = 0
  /\ calls = MinimumSampleSize
  /\ cb.state = "OPEN"
  /\ trips = 1
  /\ cb.failures = MinimumSampleSize
  /\ cb.successes = 0

\* The probe has just closed the breaker: the failures are cleared, the
\* probe's success is counted.
C23_WitnessClosed ==
  /\ step = "success"
  /\ cb.state = "CLOSED"
  /\ trips = 1
  /\ calls = MinimumSampleSize + 1
  /\ cb.failures = 0
  /\ cb.successes = 1

\* C24: while the breaker is OPEN, an operation that was in flight and
\* completes, with a success or with a failure, changes neither the state
\* nor the instant the timeout is measured from.
C24_OpenUntouchedByCompletions ==
  [][ (cb.state = "OPEN" /\ step' \in {"success", "failure"})
      => (cb'.state = "OPEN" /\ cb'.lastFailureTime = cb.lastFailureTime) ]_vars

\* After ten failures opened the breaker, an eleventh operation, in flight
\* since before, has failed at a later time: the breaker is OPEN and its
\* timeout is measured from that failure.
C24_Witness ==
  /\ step = "failure"
  /\ threshold < 100
  /\ OnlyFailuresSoFar
  /\ cb.failures = MinimumSampleSize + 1
  /\ cb.state = "OPEN"
  /\ trips = 1
  /\ now > 0
  /\ cb.lastFailureTime = now

(***************************************************************************)
(* Claims about the trip condition (checked under SpecTrip)                *)
(***************************************************************************)
\* C25: in CLOSED, a completed operation opens the breaker if and only if
\* it failed and, that failure counted, failures / (failures + successes) *
\* 100 is strictly greater than the threshold and failures + successes >= 10;
\* a rate equal to the threshold does not open it.
C25_TripsOnlyAboveThreshold ==
  [][ (cb.state = "CLOSED" /\ step' \in {"success", "failure"})
      => (cb'.state = "OPEN"
            <=> /\ step' = "failure"
                /\ cb'.failures * 100 > threshold * (cb'.failures + cb'.successes)
                /\ cb'.failures + cb'.successes >= MinimumSampleSize) ]_vars

\* Threshold 55, 11 failures out of 20: the rate is exactly 55 and the
\* breaker has opened.
C25_Witness ==
  /\ threshold = 55
  /\ step = "failure"
  /\ cb.state = "OPEN"
  /\ trips = 1
  /\ cb.failures = 11
  /\ cb.successes = 9
  /\ cb.failures * 100 = threshold * (cb.failures + cb.successes)

\* Threshold 50, 9 failures out of 18: the rate is exactly 50 and the
\* breaker is still CLOSED.
C25_WitnessAtThreshold ==
  /\ threshold = 50
  /\ step = "failure"
  /\ cb.state = "CLOSED"
  /\ trips = 0
  /\ cb.failures = 9
  /\ cb.successes = 9

(***************************************************************************)
(* Further claims about fetchPagedCompositeCards (checked under SpecFetch) *)
(***************************************************************************)
\* What each logical request has added to the breaker's counters: nothing
\* while it is under way or when it was rejected, one outcome when it was
\* admitted and has settled.
C26_OneOutcomePerRequest ==
  \A f \in FetchIds :
    LET me == fetchers[f]
        outcomes == me.breakerSuccesses + me.breakerFailures
    IN  /\ me.pc \in {"attempting", "backoff"} => outcomes = 0
        /\ me.rejected => outcomes = 0
        /\ (me.pc = "returned") => (me.breakerSuccesses = 1 /\ me.breakerFailures = 0)
        /\ (me.pc = "failed" /\ ~me.rejected)
              => (me.breakerSuccesses = 0 /\ me.breakerFailures = 1)

\* C26: each logical request the breaker admits adds exactly one outcome to
\* the breaker's counters, whatever the number of its attempts: a failed
\* attempt that is retried and the start of an attempt add nothing, the
\* success one success, the final failure one failure; a request rejected by
\* the OPEN breaker leaves the breaker as it was.
C26_OneBreakerOutcomePerRequest ==
  /\ []C26_OneOutcomePerRequest
  /\ [][ /\ step' \in {"fetch-retry", "fetch-attempt"} => cb' = cb
         /\ step' = "fetch-admitted"
              => (cb'.failures = cb.failures /\ cb'.successes = cb.successes)
         /\ step' = "fetch-returned"
              => (/\ cb'.successes = cb.successes + 1
                  /\ cb'.failures \in {cb.failures, 0})
         /\ step' = "fetch-failed"
              => (/\ cb'.failures = cb.failures + 1
                  /\ cb'.successes = cb.successes)
         /\ step' = "fetch-rejected" => cb' = cb ]_vars

\* A request that failed on all three of its attempts while the breaker was
\* one failure short of opening: one failure was counted, and it opened.
C26_Witness ==
  \E f \in FetchIds :
    /\ fetchers[f].pc = "failed"
    /\ ~fetchers[f].rejected
    /\ fetchers[f].attempts = 3
    /\ fetchers[f].failureRecords = 3
    /\ fetchers[f].breakerFailures = 1
    /\ cb.failures = MinimumSampleSize
    /\ cb.state = "OPEN"
    /\ step = "fetch-failed"

\* A request rejected by the OPEN breaker.
C26_WitnessRejected ==
  /\ step = "fetch-rejected"
  /\ cb.state = "OPEN"
  /\ cb.failures = MinimumSampleSize
  /\ \E f \in FetchIds : fetchers[f].rejected

(***************************************************************************)
(* Further claims about withRetry (checked under SpecRetry)                *)
(***************************************************************************)
\* C27: with no shouldRetryFn, a failure of an attempt that is not the last
\* one is retried if and only if it carries one of the retryable statuses
\* or is a transport-level failure; a failure with no status that stems
\* from a malformed response is not retried.
C27_DefaultClassification ==
  [][ (/\ retryPc = "running"
       /\ retryPc' \in {"sleeping", "thrown"}
       /\ ~shouldRetryFn
       /\ attempt < maxRetries)
      => (retryPc' = "sleeping"
            <=> \/ lastError'.status \in retryableStatuses
                \/ lastError'.kind = "transport") ]_vars

\* A failure with no status that stems from a malformed response was
\* followed by onRetry and a delay.
C27_Witness ==
  /\ ~shouldRetryFn
  /\ retryPc = "sleeping"
  /\ lastError.kind = "malformed"
  /\ lastError.status = 0
  /\ lastError.n = 1
  /\ Len(onRetryLog) = 1
  /\ sleeps = 1

\* C28: an attempt that fails because the upstream answered with a status
\* that is not retryable (400: the failure recorded under "400" in
\* errorsByStatus) is never retried: withRetry stops and the failure is
\* surfaced after that attempt.
C28_FatalOutcomeNotRetried ==
  [][ (/\ step' \in {"fetch-retry", "fetch-failed"}
       /\ metrics'.errorsByStatus[400] = metrics.errorsByStatus[400] + 1)
      => step' = "fetch-failed" ]_vars

\* The only request made so far got a 400 on its first attempt and is in
\* its second attempt.
C28_Witness ==
  /\ fetchCalls = 1
  /\ completedAttempts = 1
  /\ metrics.errorsByStatus[400] = 1
  /\ fetchers["a"].pc = "attempting"
  /\ fetchers["a"].attempts = 2
  /\ fetchers["a"].onRetries = 1
  /\ fetchers["a"].backoffs = 1

(***************************************************************************)
(* Claims about the delay between attempts (checked under SpecRetry)       *)
(***************************************************************************)
\* C29: the time withRetry waits between attempt i and attempt i + 1, that
\* is the duration sleep() gives to its timer, is never shorter than
\* min(baseDelay * 2^i, 30000).
C29_WaitAtLeastExponential ==
  retryPc = "sleeping" => waitMs >= CappedExponential(attempt, baseDelayMs) * Scale

\* Math.random() was 0 in calculateBackoffDelay and in sleep: the delay is
\* the exponential value and the timer is set to nine tenths of it.
C29_Witness ==
  /\ retryPc = "sleeping"
  /\ baseDelayMs = 1000
  /\ attempt = 1
  /\ delay = CappedExponential(attempt, baseDelayMs) * Scale
  /\ 10 * waitMs = 9 * delay

(***************************************************************************)
(* Claims about the onRetry hook (checked under SpecRetry)                 *)
(***************************************************************************)
\* C30: onRetry is called once for each failed attempt that is followed by
\* another attempt, with that attempt's failure and its zero-based index,
\* before the delay starts, and never after a success, after the last
\* allowed attempt or after a failure that is not retried: the calls are
\* those for the indices 0, 1, ... in order, one fewer than the invocations
\* of the operation once the delay is over or the call has settled.
C30_OnRetryOncePerRetriedFailure ==
  /\ \A i \in 1 .. Len(onRetryLog) : onRetryLog[i] = <<i, i - 1>>
  /\ retryPc = "sleeping" => (Len(onRetryLog) = invocations /\ sleeps = invocations)
  /\ retryPc \in {"running", "returned", "thrown"} => Len(onRetryLog) = invocations - 1
  /\ retryPc = "start" => onRetryLog = << >>

\* Four invocations, the last allowed one failed too: three calls of the
\* hook, with indices 0, 1, 2.
C30_Witness ==
  /\ retryPc = "thrown"
  /\ maxRetries = 3
  /\ invocations = 4
  /\ onRetryLog = << <<1, 0>>, <<2, 1>>, <<3, 2>> >>

\* A success on the third invocation: two calls of the hook.
C30_WitnessSuccess ==
  /\ retryPc = "returned"
  /\ invocations = 3
  /\ onRetryLog = << <<1, 0>>, <<2, 1>> >>

(***************************************************************************)
(* Claims about the attempts of a logical request (checked under SpecFetch)*)
(***************************************************************************)
\* The invocations of scrapeFn a logical request has started and that have
\* neither returned nor thrown.
AttemptsInFlight(f) ==
  fetchers[f].attempts - (fetchers[f].successRecords + fetchers[f].failureRecords)

\* C31: whatever the other logical requests do, a logical request has at
\* most one attempt in flight, and its next attempt starts only when the
\* one before has thrown and the backoff delay that followed has elapsed.
C31_AttemptsSequential ==
  /\ [](\A f \in FetchIds :
          /\ AttemptsInFlight(f) \in {0, 1}
          /\ AttemptsInFlight(f) = 1 <=> fetchers[f].pc = "attempting")
  /\ [][ \A f \in FetchIds :
           (fetchers[f].attempts >= 1 /\ fetchers'[f].attempts = fetchers[f].attempts + 1)
             => (/\ fetchers[f].pc = "backoff"
                 /\ AttemptsInFlight(f) = 0
                 /\ fetchers[f].backoffs = fetchers[f].attempts) ]_vars

\* Two logical requests interleaved: one is in its third attempt, the other
\* is waiting out the delay after its first.
C31_Witness ==
  /\ fetchers["a"].pc = "attempting"
  /\ fetchers["a"].attempts = 3
  /\ AttemptsInFlight("a") = 1
  /\ fetchers["b"].pc = "backoff"
  /\ fetchers["b"].attempts = 1
  /\ AttemptsInFlight("b") = 0

(***************************************************************************)
(* Claims about the nesting of limiter, breaker and retry (SpecServe)      *)
(***************************************************************************)
\* The caller c holds a limiter slot and is inside its call.
holdsSlot(c) ==
  \/ c[1] = "url" /\ urlPc[c[2]] = "fetching"
  \/ c[1] = "req" /\ reqPc[c[2]] = "fetching"

\* The fetch made for caller c has settled with the outcome the caller stores.
SettledFor(c, resolved) ==
  \E f \in FetchIds :
    /\ fetchers[f].caller = c
    /\ fetchers[f].pc = (IF resolved THEN "returned" ELSE "failed")

\* C32: for a request served through the server's limit() or through
\* batchFetchPagedCompositeCards, an attempt is under way or in backoff only
\* while its caller holds a limiter slot and the breaker admitted the call;
\* an attempt starts only then; the held slots are exactly those of the
\* callers between taking and giving back; and a caller gives its slot back
\* once, when its call has settled, on the resolved and on the rejected exit.
C32_NestingRespected ==
  /\ [](/\ \A f \in FetchIds :
            /\ fetchers[f].pc \in {"attempting", "backoff"}
                 => holdsSlot(fetchers[f].caller) /\ ~fetchers[f].rejected
            /\ fetchers[f].attempts >= 1 => ~fetchers[f].rejected
        /\ activeRequests
             = Cardinality({u \in Urls : urlPc[u] \in {"delaying", "fetching"}})
        /\ activeCount = Cardinality({r \in Requests : reqPc[r] = "fetching"}))
  /\ [][ /\ \A f \in FetchIds :
              fetchers'[f].attempts > fetchers[f].attempts
                => /\ holdsSlot(fetchers'[f].caller)
                   /\ UNCHANGED <<urlPc, reqPc, activeRequests, activeCount>>
                   /\ step' = "fetch-admitted" => ~executeRejects(cb, now)
                   /\ step' # "fetch-admitted" => fetchers[f].pc = "backoff"
         /\ \A u \in Urls :
              urlPc[u] = "fetching" /\ urlPc'[u] = "done"
                => /\ activeRequests' = activeRequests - 1
                   /\ SettledFor(<<"url", u>>, results'[u] = "response")
         /\ \A r \in Requests :
              reqPc[r] = "fetching" /\ reqPc'[r] # "fetching"
                => /\ activeCount' = activeCount - (IF limitQueue = << >> THEN 1 ELSE 0)
                   /\ SettledFor(<<"req", r>>, reqPc'[r] = "replied")
         /\ \A u \in Urls : urlPc[u] = "done" => urlPc'[u] = "done"
         /\ \A r \in Requests :
              reqPc[r] \in {"replied", "failed"} => reqPc'[r] = reqPc[r] ]_vars

\* The batch has given back the slot of its first url, whose call resolved,
\* and the call of its second url waits in backoff, its slot held.
C32_Witness ==
  /\ urlPc[1] = "done"
  /\ results[1] = "response"
  /\ \E f \in FetchIds :
       /\ fetchers[f].caller = <<"url", 2>>
       /\ fetchers[f].pc = "backoff"
  /\ activeRequests >= 1

(***************************************************************************)
(* Claims about the sample buffers at their capacity (SpecWindow)          *)
(***************************************************************************)
\* The buffer buf after one more sample x under capacity cap: x is appended
\* and, the buffer having been full, the oldest sample is gone.
MostRecent(buf, x, cap) ==
  IF Len(buf) = cap THEN Tail(buf) \o <<x>> ELSE buf \o <<x>>

\* C33: the latency buffer of MetricsCollector never holds more than 1000
\* samples and the samples of the second module never more than 2000; every
\* record appends its sample and, the buffer being full, evicts the oldest
\* one, the others keeping their order; and averageLatencyMs and
\* p95LatencyMs are the ones computed from the buffer as it is.
C33_BufferBoundedFifo ==
  /\ [](/\ Len(latencies) <= 1000
        /\ Len(samples) <= 2000
        /\ metrics.averageLatencyMs
             = RoundDiv(SumSeq(latencies) * 100, Len(latencies))
        /\ metrics.p95LatencyMs
             = Sorted(latencies)[(Len(latencies) * 95) \div 100 + 1]
        /\ metricsSummary.windowSize = Len(samples))
  /\ [][ /\ metrics'.totalRequests = metrics.totalRequests + 1
           => \E x \in Latencies : latencies' = MostRecent(latencies, x, 1000)
         /\ total' = total + 1
           => \E ok \in BOOLEAN, x \in Latencies :
                samples' = MostRecent(samples, [ok |-> ok, ms |-> x], 2000) ]_vars

\* Both buffers were full and have taken one more sample: each still holds
\* its capacity, the new sample last, and the collector's p95 has dropped to
\* 6000 with the slow sample that was evicted.
C33_Witness ==
  /\ metrics.totalRequests = 1000 + 1
  /\ Len(latencies) = 1000
  /\ latencies[1000] = 6000
  /\ metrics.p95LatencyMs = 6000
  /\ total = 2000 + 1
  /\ Len(samples) = 2000

(***************************************************************************)
(* Claims about the two p95 formulas (checked under SpecMetrics)           *)
(***************************************************************************)
\* C34: on the collector's buffer, percentile(arr, 95) of the second module
\* and the p95 of updateLatencyMetrics are the same sample, both indices
\* lying inside the buffer; for an empty buffer both are 0.
C34_P95FormulasAgree ==
  LET n == Len(latencies)
  IN  /\ n = 0 => percentile(latencies, 95) = 0 /\ metrics.p95LatencyMs = 0
      /\ n > 0 => /\ (95 * (n - 1)) \div 100 < n
                  /\ (n * 95) \div 100 < n
                  /\ percentile(latencies, 95)
                       = updateLatencyMetrics(metrics, latencies).p95LatencyMs

\* Two samples, 6000 then 7000: the collector reports the larger one as p95
\* (index floor(2 * 0.95) = 1), percentile gives the smaller one (index
\* floor(0.95 * 1) = 0).
C34_Witness ==
  /\ latencies = <<6000, 7000>>
  /\ metrics.p95LatencyMs = 7000
  /\ percentile(latencies, 95) = 6000

(***************************************************************************)
(* Claims about MetricsCollector.reset (checked under SpecReset)           *)
(***************************************************************************)
\* C35: reset() leaves every counter, every entry of errorsByStatus, the
\* trip count, the average and the p95 at zero and the sample buffer empty,
\* and changes neither the breaker's state and counters nor the number of
\* slots held in either limiter.
C35_ResetZeroesOnlyMetrics ==
  [][ metrics'.lastResetAt # metrics.lastResetAt
        => /\ metrics'.totalRequests = 0
           /\ metrics'.successfulRequests = 0
           /\ metrics'.failedRequests = 0
           /\ \A st \in DOMAIN metrics'.errorsByStatus : metrics'.errorsByStatus[st] = 0
           /\ metrics'.circuitBreakerTrips = 0
           /\ metrics'.averageLatencyMs = 0
           /\ metrics'.p95LatencyMs = 0
           /\ latencies' = << >>
           /\ UNCHANGED <<cb, threshold, activeRequests, activeCount>> ]_vars

\* The collector has been reset: its counters are zero and its buffer is
\* empty, the breaker is still OPEN with its ten failures and the slots are
\* still held.
C35_Witness ==
  /\ metrics.lastResetAt = 1
  /\ metrics.totalRequests = 0
  /\ metrics.circuitBreakerTrips = 0
  /\ latencies = << >>
  /\ cb.state = "OPEN"
  /\ cb.failures = MinimumSampleSize
  /\ activeRequests >= 1
  /\ activeCount >= 1

(***************************************************************************)
(* Claims about the errors counted by status (checked under SpecFetch)     *)
(***************************************************************************)
\* The HTTP status the upstream answered with, for the failure raw of an
\* attempt (0: no response): scrapeFn throws the fixed rate-limit message for
\* a 429 and puts the status of the statuses it has no fixed message for on
\* the error.
upstreamStatus(raw) ==
  IF raw.message = "Rate limited - too many requests. Increase delays between requests."
    THEN 429
    ELSE raw.status

\* errorsByStatus[s] || 0
ErrorCount(m, s) ==
  IF s \in DOMAIN m.errorsByStatus THEN m.errorsByStatus[s] ELSE 0

\* C36: when the attempt that ends a logical request failed because the
\* upstream answered with a status s >= 400, the collector's count of errors
\* for status s has grown by exactly 1.
C36_ErrorsByStatusCounted ==
  [][ \A f \in FetchIds, raw \in RawErrors :
        (/\ fetchers[f].pc = "attempting"
         /\ fetchers'[f].pc = "failed"
         /\ fetchers'[f].lastMessage = enhancedError(raw).message
         /\ upstreamStatus(raw) >= 400)
          => ErrorCount(metrics', upstreamStatus(raw))
               = ErrorCount(metrics, upstreamStatus(raw)) + 1 ]_vars

\* The only attempt made so far failed on a 429 of the upstream: one failed
\* request is recorded and no error is counted under any status.
C36_Witness ==
  /\ \E f \in FetchIds :
       /\ fetchers[f].pc = "failed"
       /\ fetchers[f].lastMessage
            = "Rate limited - too many requests. Increase delays between requests."
  /\ metrics.lastResetAt = 0
  /\ metrics.failedRequests = 1
  /\ \A st \in DOMAIN metrics.errorsByStatus : metrics.errorsByStatus[st] = 0

(***************************************************************************)
(* Claims about sleep(ms, jitter) called on its own (SpecSleep)            *)
(***************************************************************************)
\* C37: whatever the target and the jitter fraction j, the duration given to
\* the timer is at least 100 ms, and a duration above that floor lies
\* between ms * (1 - j/2) and ms * (1 + j/2).
C37_SleepFloorAndRange ==
  retryPc \in {"sleeping", "slept"}
    => /\ waitMs >= 100 * Scale
       /\ waitMs > 100 * Scale
            => /\ 20 * waitMs >= delay * (20 - sleepJitter)
               /\ 20 * waitMs <= delay * (20 + sleepJitter)

\* sleep(1000, 1) with Math.random() = 0: the timer is set to 500 ms.
C37_Witness ==
  /\ retryPc = "sleeping"
  /\ delay = 1000 * Scale
  /\ sleepJitter = 10
  /\ waitMs = 500 * Scale

\* sleep(50, 0.5): the floor applies and the timer is set to 100 ms.
C37_WitnessFloor ==
  /\ retryPc = "slept"
  /\ delay = 50 * Scale
  /\ sleepJitter = 5
  /\ waitMs = 100 * Scale

(***************************************************************************)
(* Claims about attempts while the breaker is OPEN (checked under SpecFetch)*)
(***************************************************************************)
\* scrapeFn is invoked in this step: a logical request goes from its gate or
\* from its backoff into an attempt.
AttemptStarts ==
  \E f \in FetchIds : fetchers[f].pc # "attempting" /\ fetchers'[f].pc = "attempting"

\* C38: while the breaker is OPEN and no more than the timeout has passed
\* since the last failure, no invocation of scrapeFn starts, the retries of
\* requests admitted before the trip included.
C38_NoAttemptWhileOpen ==
  [][ (cb.state = "OPEN" /\ now - cb.lastFailureTime <= Timeout)
        => ~AttemptStarts ]_vars

\* The last step started the second attempt of a request, out of its
\* backoff, while the breaker is OPEN within its timeout.
C38_Witness ==
  /\ step = "fetch-attempt"
  /\ cb.state = "OPEN"
  /\ now - cb.lastFailureTime <= Timeout
  /\ \E f \in FetchIds : fetchers[f].pc = "attempting" /\ fetchers[f].attempts = 2

(***************************************************************************)
(* Claims about the result of the batch (checked under SpecLimiterFair)    *)
(***************************************************************************)
\* C39: with a concurrency of at least 1 and every fetch settling, the batch
\* ends (await Promise.all resolves; no step of the batch rejects it) with an
\* entry for every url; the entry of index i is stored when, and only when,
\* the fetch of urls[i] settles, as its response or its error, and no other
\* entry changes then, whatever the order in which the fetches settle.
C39_BatchResolvesInOrder ==
  /\ [](\A u \in Urls : (results[u] # "empty") <=> (urlPc[u] = "done"))
  /\ [][ \A u \in Urls :
           (urlPc[u] = "fetching" /\ urlPc'[u] = "done")
             => /\ results'[u] \in {"response", "error"}
                /\ \A v \in Urls \ {u} : results'[v] = results[v] ]_vars
  /\ (concurrency >= 1) ~> (BatchOver /\ \A u \in Urls : results[u] \in {"response", "error"})

\* With two slots the fetch of the second url has settled, with an error,
\* before the fetch of the first: the second entry is stored, the first is not.
C39_Witness ==
  /\ concurrency = 2
  /\ urlPc[1] = "fetching"
  /\ results[1] = "empty"
  /\ urlPc[2] = "done"
  /\ results[2] = "error"

\* The batch has ended with a response for the first url and errors for the others.
C39_WitnessOver ==
  /\ concurrency >= 1
  /\ BatchOver
  /\ results[1] = "response"
  /\ \A u \in Urls \ {1} : results[u] = "error"

====
